---- MODULE Spec2Model ----
(***************************************************************************)
(* Work-coordination engine of the model-library manager:                  *)
(*   - the durable task queue (app/services/queue.py, app/routers/queue.py,*)
(*     app/routers/index.py) and the single queue worker                   *)
(*     (app/services/worker.py),                                           *)
(*   - the file index (app/services/indexer.py) and the diff               *)
(*     (app/services/differ.py),                                           *)
(*   - the resumable downloader (app/services/downloader.py).              *)
(* Every coroutine / thread is cut at its suspension points (await, lock   *)
(* release), one action per segment.                                       *)
(***************************************************************************)
EXTENDS Integers, Sequences, FiniteSets, TLC

\* ------------------------------------------------------------------ bounds
MaxTasks  == 2      \* queue rows ever inserted (AUTOINCREMENT ids 1..MaxTasks)
MaxClock  == 1      \* wall-clock readings 0..MaxClock
MaxChunks == 2      \* file length, in 1 MiB chunks
MaxJobs   == 2      \* download jobs ever created
ServerChunks == 2   \* length of a downloaded resource, in 1 MiB chunks
MaxAttempts == 2    \* attempts of one download job (DownloadJob.attempts)
MaxKeys   == 2      \* remote sessions ever enabled
MaxRTasks == 2      \* remote tasks ever created
MaxRClock == 2      \* remote clock readings 0..MaxRClock
MaxScans  == 1      \* dedupe scans ever run

\* --------------------------------------------------------------- constants
Sides    == {"local", "lake"}
Relpaths == {"d/a", "b"}
NULL     == "NULL"          \* SQL NULL in a text column
NoTime   == -1              \* SQL NULL in a timestamp / integer column
NoHash   == <<>>            \* SQL NULL in file_index.hash

\* config.py defaults are both False; one side is switched on so that both
\* branches of the delete policy occur.
AllowDelete == [local |-> FALSE, lake |-> TRUE]

VARIABLES
    \* ---- store: queue table
    queue,          \* id -> row, for the rows present
    next_id,        \* AUTOINCREMENT counter of the queue table
    \* ---- store: file_index table, filesystem roots
    file_index,     \* side -> (relpath -> record), for the rows present
    fs,             \* side -> (relpath -> file),   for the files present
    \* ---- process state
    clock,          \* datetime.now()
    svc_paused,     \* QueueService._paused
    w_paused,       \* QueueWorker._paused
    w_running,      \* QueueWorker._running
    w_pc,           \* position of the worker loop
    task,           \* the dict returned by _get_next_task (snapshot)
    current_task_id,\* QueueWorker._current_task_id (0 = None)
    bytes_copied,   \* _execute_copy: chunks copied so far
    hasher,         \* _execute_copy: chunks fed to blake3 so far
    candidate_files,\* _execute_verify: rows fetched
    vi,             \* _execute_verify: loop index i
    events,         \* what the worker broadcast for the task it took last
    \* ---- downloader (DownloadManager)
    jobs,           \* _jobs: id -> DownloadJob
    active,         \* _active: ids of the jobs whose thread is alive
    dl_next_id,     \* _next_id
    thr,            \* id -> position and locals of the job's _run_job thread
    dest_files,     \* file name -> size, for the files at a dest_path
    part_files,     \* file name -> size, for the files at a temp_path (.part)
    download_jobs,  \* table download_jobs: id -> the row's url and status
    \* ---- remote session broker (RemoteSessionManager)
    api_key,        \* _api_key (0 = None)
    expires_at,     \* _expires_at (NoTime = None)
    agent,          \* _agent_connected, _agent_info, _last_heartbeat
    r_tasks,        \* _tasks: the list of RemoteTask
    task_event,     \* _task_event.is_set()
    keys_issued,    \* number of keys secrets.token_urlsafe has produced
    r_next_id,      \* number of RemoteTask ids uuid4 has produced, plus one
    r_now,          \* datetime.now(timezone.utc), in units of the session TTL
    poll,           \* the next_task long-poll: position, event awaited, answer
    \* ---- admission filter (filter_external_traffic)
    http_req,       \* the request: Host header and URL path
    http_resp,      \* what the middleware answered
    \* ---- store: dedupe_groups, dedupe_files tables
    dedupe_groups,  \* id -> row
    dedupe_files,   \* id -> row
    scans,          \* number of scan ids uuid4 has produced
    dedupe_result,  \* what the last execute was given and what it returned
    \* ---- store: source_urls table
    source_urls,    \* key -> url
    \* ---- request handlers between their SELECT and their INSERT
    checked,        \* handler -> the row it is about to insert
    \* ---- QueueWorker.start / stop
    loops           \* the _worker_loop coroutines start() has created

qvars == <<queue, next_id, file_index, fs, clock, svc_paused, w_paused,
           w_running, w_pc, task, current_task_id, bytes_copied, hasher,
           candidate_files, vi, events>>

dvars == <<jobs, active, dl_next_id, thr, dest_files, part_files, download_jobs>>

rvars == <<api_key, expires_at, agent, r_tasks, task_event, keys_issued,
           r_next_id, r_now, poll>>

fvars == <<http_req, http_resp>>

ddvars == <<dedupe_groups, dedupe_files, scans, dedupe_result>>

\* The filter, the dedupe tables and the source_urls table.
xvars == <<fvars, ddvars, source_urls, checked, loops>>

vars == <<qvars, dvars, rvars, xvars>>

\* No request; no execute yet.
NoRequest == [host |-> <<>>, path |-> <<>>]

NoResult == [scan_id |-> 0, selections |-> {}, deleted |-> 0, freed_bytes |-> 0,
             errors |-> {}]

\* ------------------------------------------------------------ pure helpers
TaskIds == 1..MaxTasks

\* blake3 over the whole content: a collision-free digest, rendered as hex.
FullHash(data) == <<"blake3", data>>

IsFullHash(h) == h # NoHash /\ h[1] # "fast:"

\* os.utime takes float seconds; st_mtime_ns of the destination is the
\* source's time after the float round trip (even values are representable).
FloatRoundTrip(m) == m - (m % 2)

\* relpath LIKE '<folder>/%'
LikeFolder(r, folder) == folder = "d" /\ r = "d/a"

Remove(f, k) == [x \in (DOMAIN f) \ {k} |-> f[x]]

Put(f, k, v) == [x \in (DOMAIN f) \cup {k} |-> IF x = k THEN v ELSE f[x]]

EmptyMap == [x \in {} |-> 0]

\* Columns of the queue table; size_bytes and completed_at, which nothing
\* reads back, are left out.
NoTask == [id |-> 0, task_type |-> NULL, status |-> NULL, src_side |-> NULL,
           src_relpath |-> NULL, dst_side |-> NULL, dst_relpath |-> NULL,
           bytes_transferred |-> 0, error_message |-> NULL,
           retry_count |-> 0, created_at |-> NoTime, started_at |-> NoTime,
           verify_folder |-> NULL]

\* INSERT INTO queue (...): the columns not named take the schema defaults.
NewRow(id, type, ss, sr, ds, dr, folder, now) ==
    [id |-> id, task_type |-> type, status |-> "pending", src_side |-> ss,
     src_relpath |-> sr, dst_side |-> ds, dst_relpath |-> dr,
     bytes_transferred |-> 0, error_message |-> NULL,
     retry_count |-> 0, created_at |-> now, started_at |-> NoTime,
     verify_folder |-> folder]

Insert(row) ==
    /\ next_id <= MaxTasks
    /\ queue' = Put(queue, next_id, row)
    /\ next_id' = next_id + 1

wlocals == <<w_pc, task, current_task_id, bytes_copied, hasher,
             candidate_files, vi, events>>

\* broadcast(event_type, data): the type and, for task_complete, the status.
Event(type, status) == [type |-> type, status |-> status]

nonQ == <<dvars, rvars, xvars>>

\* What the downloader leaves alone.
nonD == <<qvars, rvars, xvars>>

Pending(q) == {i \in DOMAIN q : q[i].status = "pending"}

Running(q) == {i \in DOMAIN q : q[i].status = "running"}

Terminal == {"completed", "failed", "cancelled"}

\* ================================================================ startup
\* Variant: the startup reset is skipped.
ResetRunning_Skipped(q) == q

\* Variant: the reset puts the row back to pending and keeps its progress.
ResetRunning_KeepsProgress(q) ==
    [i \in DOMAIN q |->
        IF q[i].status = "running" THEN [q[i] EXCEPT !.status = "pending"]
        ELSE q[i]]

\* main.py lifespan: reset orphan running rows, then worker.start().
ResetRunning(q) ==
    [i \in DOMAIN q |->
        IF q[i].status = "running"
        THEN [q[i] EXCEPT !.status = "pending", !.started_at = NoTime,
                          !.bytes_transferred = 0, !.error_message = NULL]
        ELSE q[i]]

Startup ==
    /\ w_pc = "boot"
    /\ queue' = ResetRunning(queue)
    /\ w_running' = TRUE
    /\ w_pc' = "idle"
    /\ UNCHANGED <<next_id, file_index, fs, clock, svc_paused, w_paused, task,
                   current_task_id, bytes_copied, hasher, candidate_files, vi>>
    /\ UNCHANGED events
    /\ UNCHANGED nonQ

Up == w_pc # "boot"

Tick ==
    /\ clock < MaxClock
    /\ clock' = clock + 1
    /\ UNCHANGED <<queue, next_id, file_index, fs, svc_paused, w_paused,
                   w_running, wlocals>>
    /\ UNCHANGED nonQ

\* ========================================================= queue service
apiFrame == <<file_index, fs, clock, svc_paused, w_paused, w_running, wlocals>>

\* POST /api/queue/copy -> QueueService.enqueue_copy
EnqueueCopy(ss, sr, ds, dr) ==
    /\ Up
    /\ ss # ds
    /\ Insert(NewRow(next_id, "copy", ss, sr, ds, dr, NULL, clock))
    /\ UNCHANGED apiFrame
    /\ UNCHANGED nonQ

\* QueueService._validate_move
ValidateMove(side, sr, dr) ==
    /\ sr # dr
    /\ sr \in DOMAIN fs[side]
    /\ dr \notin DOMAIN fs[side]

\* QueueService.enqueue_move_batch: one row per side, all with the same now.
RECURSIVE InsertMoves(_, _, _, _, _, _)
InsertMoves(q, nid, sideSeq, sr, dr, now) ==
    IF sideSeq = <<>> THEN q
    ELSE InsertMoves(
            Put(q, nid, NewRow(nid, "move", Head(sideSeq), sr, Head(sideSeq), dr,
                               NULL, now)),
            nid + 1, Tail(sideSeq), sr, dr, now)

\* unique_sides: the sides in the order given, each once.
RECURSIVE UniqueSides(_)
UniqueSides(sideSeq) ==
    IF sideSeq = <<>> THEN <<>>
    ELSE LET front == UniqueSides(SubSeq(sideSeq, 1, Len(sideSeq) - 1))
             last  == sideSeq[Len(sideSeq)]
         IN  IF \E k \in DOMAIN front : front[k] = last THEN front
             ELSE Append(front, last)

\* The preflight consulted for the first side only.
MoveErrors_FirstOnly(unique, sr, dr) ==
    {k \in DOMAIN unique : k = 1 /\ ~ValidateMove(unique[k], sr, dr)}

\* errors: the sides whose _validate_move failed.
MoveErrors(unique, sr, dr) ==
    {k \in DOMAIN unique : ~ValidateMove(unique[k], sr, dr)}

\* QueueService.enqueue_move_batch: whether it raised ValueError, the queue
\* table it leaves and the ids it returns.
EnqueueMoveBatch(q, nid, sideSeq, sr, dr, now) ==
    LET unique == UniqueSides(sideSeq)
    IN  IF sideSeq = <<>> \/ sr = dr \/ MoveErrors(unique, sr, dr) # {}
        THEN [raised |-> TRUE, queue |-> q, task_ids |-> <<>>]
        ELSE [raised |-> FALSE,
              queue |-> InsertMoves(q, nid, unique, sr, dr, now),
              task_ids |-> [k \in DOMAIN unique |-> nid + k - 1]]

\* POST /api/queue/move: a call that raises changes nothing.
EnqueueMove(sideSeq, sr, dr) ==
    /\ Up
    /\ LET res == EnqueueMoveBatch(queue, next_id, sideSeq, sr, dr, clock)
       IN  /\ ~res.raised
           /\ next_id + Len(res.task_ids) - 1 <= MaxTasks
           /\ queue' = res.queue
           /\ next_id' = next_id + Len(res.task_ids)
    /\ UNCHANGED apiFrame
    /\ UNCHANGED nonQ

\* The allow-delete flags never consulted.
PolicyDenied_Never(side, respect_policy) == FALSE

\* enqueue_delete raises ValueError("Delete not allowed on ...").
PolicyDenied(side, respect_policy) == respect_policy /\ ~AllowDelete[side]

\* QueueService.enqueue_delete: whether it raised, and the queue table it leaves.
EnqueueDeleteResult(q, nid, side, r, respect_policy, now) ==
    IF PolicyDenied(side, respect_policy)
    THEN [raised |-> TRUE, queue |-> q]
    ELSE [raised |-> FALSE,
          queue |-> Put(q, nid, NewRow(nid, "delete", NULL, NULL, side, r, NULL, now))]

\* POST /api/queue/delete -> QueueService.enqueue_delete
EnqueueDelete(side, r, respect_policy) ==
    /\ Up
    /\ ~EnqueueDeleteResult(queue, next_id, side, r, respect_policy, clock).raised
    /\ Insert(NewRow(next_id, "delete", NULL, NULL, side, r, NULL, clock))
    /\ UNCHANGED apiFrame
    /\ UNCHANGED nonQ

\* POST /api/index/verify with a relpath
EnqueueVerifyFile(r) ==
    /\ Up
    /\ ~ \E i \in DOMAIN queue :
            /\ queue[i].task_type = "verify"
            /\ queue[i].src_relpath = r
            /\ queue[i].status \in {"pending", "running"}
    /\ Insert(NewRow(next_id, "verify", NULL, r, NULL, NULL, NULL, clock))
    /\ UNCHANGED apiFrame
    /\ UNCHANGED nonQ

\* POST /api/index/verify with a folder ("" = everything)
EnqueueVerifyFolder(folder) ==
    /\ Up
    /\ ~ \E i \in DOMAIN queue :
            /\ queue[i].task_type = "verify"
            /\ queue[i].verify_folder = folder
            /\ queue[i].status \in {"pending", "running"}
    /\ Insert(NewRow(next_id, "verify", NULL, NULL, NULL, NULL, folder, clock))
    /\ UNCHANGED apiFrame
    /\ UNCHANGED nonQ

cancelFrame == <<next_id, file_index, fs, clock, svc_paused, w_paused,
                 w_running, wlocals>>

\* QueueService.cancel_task
CancelRow(q, id) ==
    [i \in DOMAIN q |->
        IF i = id /\ q[i].status \in {"pending", "running"}
        THEN [q[i] EXCEPT !.status = "cancelled"]
        ELSE q[i]]

CancelTask(id) ==
    /\ Up
    /\ id \in DOMAIN queue
    /\ queue[id].status \in {"pending", "running"}
    /\ queue' = CancelRow(queue, id)
    /\ UNCHANGED cancelFrame
    /\ UNCHANGED nonQ

\* QueueService.cancel_all_tasks
CancelAll ==
    /\ Up
    /\ \E i \in DOMAIN queue : queue[i].status \in {"pending", "running"}
    /\ queue' = [i \in DOMAIN queue |->
                    IF queue[i].status \in {"pending", "running"}
                    THEN [queue[i] EXCEPT !.status = "cancelled"]
                    ELSE queue[i]]
    /\ UNCHANGED cancelFrame
    /\ UNCHANGED nonQ

\* QueueService.remove_task
RemoveTask(id) ==
    /\ Up
    /\ id \in DOMAIN queue
    /\ queue[id].status = "pending"
    /\ queue' = Remove(queue, id)
    /\ UNCHANGED cancelFrame
    /\ UNCHANGED nonQ

\* POST /api/queue/pause -> QueueService.pause
PauseQueue ==
    /\ Up
    /\ svc_paused' = TRUE
    /\ UNCHANGED <<queue, next_id, file_index, fs, clock, w_paused, w_running,
                   wlocals>>
    /\ UNCHANGED nonQ

\* POST /api/queue/resume -> QueueService.resume
ResumeQueue ==
    /\ Up
    /\ svc_paused' = FALSE
    /\ UNCHANGED <<queue, next_id, file_index, fs, clock, w_paused, w_running,
                   wlocals>>
    /\ UNCHANGED nonQ

\* ================================================================ indexer
\* A file_index row (indexed_at, which nothing reads back, is left out).
Rec(size, mtime, h, hat) ==
    [size |-> size, mtime_ns |-> mtime, hash |-> h, hash_computed_at |-> hat]

\* The row scan_side inserts for one walked file.  `table` is the side's
\* part of file_index as the SELECT sees it: the DELETE of the same
\* transaction has already run.
ScanRow(table, r, f) ==
    IF /\ r \in DOMAIN table
       /\ table[r].size = Len(f.data)
       /\ table[r].mtime_ns = f.mtime
       /\ table[r].hash # NoHash
    THEN Rec(Len(f.data), f.mtime, table[r].hash, table[r].hash_computed_at)
    ELSE Rec(Len(f.data), f.mtime, NoHash, NoTime)

\* IndexerService.scan_side: DELETE FROM file_index WHERE side = ?, then one
\* SELECT + INSERT per walked file, one commit.
ScanSide(idx, files, side) ==
    LET afterDelete == [idx EXCEPT ![side] = EmptyMap]
    IN  [afterDelete EXCEPT ![side] =
            [r \in DOMAIN files[side] |->
                ScanRow(afterDelete[side], r, files[side][r])]]

\* POST /api/index/refresh for one side
RefreshIndex(side) ==
    /\ Up
    /\ file_index' = ScanSide(file_index, fs, side)
    /\ UNCHANGED <<queue, next_id, fs, clock, svc_paused, w_paused, w_running,
                   wlocals>>
    /\ UNCHANGED nonQ

\* ================================================================= differ
\* compute_diff: the status of one relpath present on at least one side.
DiffStatus(idx, r) ==
    LET inLocal == r \in DOMAIN idx["local"]
        inLake  == r \in DOMAIN idx["lake"]
    IN  IF inLocal /\ ~inLake THEN "only_local"
        ELSE IF inLake /\ ~inLocal THEN "only_lake"
        ELSE IF ~inLocal /\ ~inLake THEN "absent"
        ELSE LET local == idx["local"][r]
                 lake  == idx["lake"][r]
             IN  IF local.hash # NoHash /\ lake.hash # NoHash
                 THEN IF local.hash = lake.hash THEN "same" ELSE "conflict"
                 ELSE IF local.size # lake.size THEN "conflict"
                 ELSE "probable_same"

\* ================================================================= worker
\* Variant: LIMIT 1 without the ORDER BY.
NextTaskChoices_Unordered(q) == {i \in DOMAIN q : q[i].status = "pending"}

\* _get_next_task: SELECT ... WHERE status = 'pending'
\*                 ORDER BY created_at ASC LIMIT 1
\* (rows with equal created_at: whichever the engine returns first).
NextTaskChoices(q) ==
    {i \in Pending(q) : \A j \in Pending(q) : q[i].created_at <= q[j].created_at}

\* _worker_loop, one cycle that finds a task; _process_task up to its first
\* database call.
WorkerSelect ==
    /\ w_pc = "idle"
    /\ w_running
    /\ ~w_paused
    /\ \E i \in NextTaskChoices(queue) :
          /\ task' = queue[i]
          /\ current_task_id' = i
    /\ w_pc' = "mark"
    /\ UNCHANGED <<queue, next_id, file_index, fs, clock, svc_paused, w_paused,
                   w_running, bytes_copied, hasher, candidate_files, vi>>
    /\ UNCHANGED events
    /\ UNCHANGED nonQ

\* UPDATE queue SET status = 'running', started_at = ? WHERE id = ?
MarkRunning(q, id, now) ==
    [i \in DOMAIN q |->
        IF i = id THEN [q[i] EXCEPT !.status = "running", !.started_at = now]
        ELSE q[i]]

WorkerMarkRunning ==
    /\ w_pc = "mark"
    /\ queue' = MarkRunning(queue, task.id, clock)
    /\ w_pc' = "dispatch"
    /\ UNCHANGED <<next_id, file_index, fs, clock, svc_paused, w_paused,
                   w_running, task, current_task_id, bytes_copied, hasher,
                   candidate_files, vi>>
    /\ events' = <<Event("task_started", NULL)>>
    /\ UNCHANGED nonQ

wFrame == <<next_id, clock, svc_paused, w_paused, w_running, task,
            current_task_id>>

\* _execute_copy up to the copy loop: source check, open(src,'rb'),
\* open(dst,'wb') (creates or truncates the destination).
CopyOpen ==
    /\ w_pc = "dispatch"
    /\ task.task_type = "copy"
    /\ IF task.src_relpath \notin DOMAIN fs[task.src_side]
       THEN /\ w_pc' = "fail"
            /\ UNCHANGED <<fs, bytes_copied, hasher>>
       ELSE /\ w_pc' = "copy_loop"
            /\ fs' = [fs EXCEPT ![task.dst_side] =
                        Put(@, task.dst_relpath, [data |-> <<>>, mtime |-> clock])]
            /\ bytes_copied' = 0
            /\ hasher' = <<>>
    /\ UNCHANGED <<queue, file_index, candidate_files, vi>>
    /\ UNCHANGED wFrame
    /\ UNCHANGED events
    /\ UNCHANGED nonQ

\* bytes_transferred is persisted on the first chunk (last_db_update_time
\* starts at 0), on the last one, and otherwise when a second has passed.
PersistChoices(n, size) == IF n = 1 \/ n = size THEN {TRUE} ELSE BOOLEAN

\* progress_pct = int((bytes_copied / file_size) * 100) if file_size > 0 else 100
ProgressPct(n, size) == IF size > 0 THEN (n * 100) \div size ELSE 100

\* The copy loop broadcasts queue_progress at every multiple of 10 percent
\* and when the last byte is written.
BroadcastsProgress(n, size) ==
    \/ ProgressPct(n, size) % 10 = 0 /\ ProgressPct(n, size) > 0
    \/ n = size

\* One pass through the copy loop: read a chunk; stop at end of file, else
\* write it, feed the hasher, persist bytes_transferred.
CopyChunk ==
    /\ w_pc = "copy_loop"
    /\ LET src == fs[task.src_side][task.src_relpath].data
       IN  IF bytes_copied >= Len(src)
           THEN /\ w_pc' = "copy_final"
                /\ UNCHANGED <<queue, fs, bytes_copied, hasher, events>>
           ELSE /\ w_pc' = "copy_loop"
                /\ fs' = [fs EXCEPT ![task.dst_side][task.dst_relpath].data =
                              Append(@, src[bytes_copied + 1]),
                            ![task.dst_side][task.dst_relpath].mtime = clock]
                /\ hasher' = Append(hasher, src[bytes_copied + 1])
                /\ bytes_copied' = bytes_copied + 1
                /\ \E persist \in PersistChoices(bytes_copied + 1, Len(src)) :
                      queue' = IF persist
                               THEN [i \in DOMAIN queue |->
                                       IF i = task.id
                                       THEN [queue[i] EXCEPT !.bytes_transferred =
                                                                bytes_copied + 1]
                                       ELSE queue[i]]
                               ELSE queue
                /\ events' = IF BroadcastsProgress(bytes_copied + 1, Len(src))
                             THEN Append(events, Event("queue_progress", NULL))
                             ELSE events
    /\ UNCHANGED <<file_index, candidate_files, vi>>
    /\ UNCHANGED wFrame
    /\ UNCHANGED nonQ

\* Variant: only the destination row is written.
CopyIndexUpdate_DstOnly(idx, t, file_hash, dst_size, dst_mtime, now) ==
    [idx EXCEPT ![t.dst_side] =
        [x \in (DOMAIN @) \cup {t.dst_relpath} |->
            IF x = t.dst_relpath
            THEN [size |-> dst_size, mtime_ns |-> dst_mtime, hash |-> file_hash,
                  hash_computed_at |-> now]
            ELSE @[x]]]

\* The two file_index statements that end _execute_copy:
\*   UPDATE file_index SET hash, hash_computed_at WHERE side = src, relpath = src
\*   INSERT OR REPLACE INTO file_index (dst ...)
CopyIndexUpdate(idx, t, file_hash, dst_size, dst_mtime, now) ==
    LET afterSrc ==
            IF t.src_relpath \in DOMAIN idx[t.src_side]
            THEN [idx EXCEPT ![t.src_side][t.src_relpath].hash = file_hash,
                             ![t.src_side][t.src_relpath].hash_computed_at = now]
            ELSE idx
    IN  [afterSrc EXCEPT ![t.dst_side] =
            Put(@, t.dst_relpath, Rec(dst_size, dst_mtime, file_hash, now))]

\* _execute_copy after the loop: hexdigest, os.utime, stat, index update.
CopyFinal ==
    /\ w_pc = "copy_final"
    /\ LET src_mtime == fs[task.src_side][task.src_relpath].mtime
           dst_mtime == FloatRoundTrip(src_mtime)
           dst_size  == Len(fs[task.dst_side][task.dst_relpath].data)
       IN  /\ fs' = [fs EXCEPT ![task.dst_side][task.dst_relpath].mtime = dst_mtime]
           /\ file_index' = CopyIndexUpdate(file_index, task, FullHash(hasher),
                                            dst_size, dst_mtime, clock)
    /\ w_pc' = "complete"
    /\ UNCHANGED <<queue, bytes_copied, hasher, candidate_files, vi>>
    /\ UNCHANGED wFrame
    /\ UNCHANGED events
    /\ UNCHANGED nonQ

\* _execute_delete, had it raised for a file that is not there.
ExecDelete_Strict ==
    /\ w_pc = "dispatch"
    /\ task.task_type = "delete"
    /\ IF task.dst_relpath \in DOMAIN fs[task.dst_side]
       THEN /\ fs' = [fs EXCEPT ![task.dst_side] = Remove(@, task.dst_relpath)]
            /\ w_pc' = "complete"
       ELSE /\ fs' = fs
            /\ w_pc' = "fail"
    /\ UNCHANGED <<queue, file_index, bytes_copied, hasher, candidate_files, vi>>
    /\ UNCHANGED wFrame
    /\ UNCHANGED events
    /\ UNCHANGED nonQ

\* _execute_delete: remove the file if it exists.
ExecDelete ==
    /\ w_pc = "dispatch"
    /\ task.task_type = "delete"
    /\ fs' = [fs EXCEPT ![task.dst_side] = Remove(@, task.dst_relpath)]
    /\ w_pc' = "complete"
    /\ UNCHANGED <<queue, file_index, bytes_copied, hasher, candidate_files, vi>>
    /\ UNCHANGED wFrame
    /\ UNCHANGED events
    /\ UNCHANGED nonQ

\* move and hash_file have no branch in _process_task: nothing is executed.
ExecNothing ==
    /\ w_pc = "dispatch"
    /\ task.task_type \in {"move", "hash_file"}
    /\ w_pc' = "complete"
    /\ UNCHANGED <<queue, file_index, fs, bytes_copied, hasher, candidate_files, vi>>
    /\ UNCHANGED wFrame
    /\ UNCHANGED events
    /\ UNCHANGED nonQ

\* The verify query: local JOIN lake ON relpath, size WHERE a hash is NULL,
\* restricted to one relpath, to a folder prefix, or to nothing.
VerifyCandidates(idx, t) ==
    {r \in DOMAIN idx["local"] \cap DOMAIN idx["lake"] :
        /\ idx["local"][r].size = idx["lake"][r].size
        /\ idx["local"][r].hash = NoHash \/ idx["lake"][r].hash = NoHash
        /\ IF t.src_relpath # NULL THEN r = t.src_relpath
           ELSE IF t.verify_folder # NULL /\ t.verify_folder # ""
                THEN LikeFolder(r, t.verify_folder)
                ELSE TRUE}

VerifyRow(idx, r) ==
    [relpath |-> r, size |-> idx["local"][r].size,
     local_hash |-> idx["local"][r].hash, lake_hash |-> idx["lake"][r].hash]

\* All orders in which the engine may return a set of rows.
Orders(S) == {q \in [1..Cardinality(S) -> S] : \A x \in S : \E k \in DOMAIN q : q[k] = x}

\* _execute_verify up to the loop: run the query, fetch the rows.
VerifyFetch ==
    /\ w_pc = "dispatch"
    /\ task.task_type = "verify"
    /\ LET cands == VerifyCandidates(file_index, task)
       IN  \E order \in Orders(cands) :
              candidate_files' = [k \in DOMAIN order |-> VerifyRow(file_index, order[k])]
    /\ vi' = 0
    /\ w_pc' = "verify_loop"
    /\ UNCHANGED <<queue, file_index, fs, bytes_copied, hasher>>
    /\ UNCHANGED wFrame
    /\ UNCHANGED events
    /\ UNCHANGED nonQ

\* Variant: the UPDATE writes the hash column alone.
SetHash_HashOnly(idx, side, r, h, now) ==
    IF r \in DOMAIN idx[side]
    THEN [idx EXCEPT ![side][r].hash = h]
    ELSE idx

\* UPDATE file_index SET hash = ?, hash_computed_at = ? WHERE side, relpath
SetHash(idx, side, r, h, now) ==
    IF r \in DOMAIN idx[side]
    THEN [idx EXCEPT ![side][r].hash = h, ![side][r].hash_computed_at = now]
    ELSE idx

\* The hashes one verify iteration stores: a side is hashed when the fetched
\* row has no hash for it and its file exists.
VerifyUpdate(idx, files, row, now) ==
    LET r == row.relpath
        a == IF row.local_hash = NoHash /\ r \in DOMAIN files["local"]
             THEN SetHash(idx, "local", r, FullHash(files["local"][r].data), now)
             ELSE idx
    IN  IF row.lake_hash = NoHash /\ r \in DOMAIN files["lake"]
        THEN SetHash(a, "lake", r, FullHash(files["lake"][r].data), now)
        ELSE a

\* One pass through the verify loop; the only stop condition it checks is
\* QueueWorker._running.
VerifyStep ==
    /\ w_pc = "verify_loop"
    /\ IF vi >= Len(candidate_files) \/ ~w_running
       THEN /\ w_pc' = "complete"
            /\ UNCHANGED <<queue, file_index, vi, events>>
       ELSE /\ w_pc' = "verify_loop"
            /\ queue' = [i \in DOMAIN queue |->
                           IF i = task.id
                           THEN [queue[i] EXCEPT !.bytes_transferred = vi + 1]
                           ELSE queue[i]]
            /\ file_index' = VerifyUpdate(file_index, fs, candidate_files[vi + 1], clock)
            /\ vi' = vi + 1
            /\ events' = (IF task.verify_folder \notin {NULL, ""}
                          THEN Append(events, Event("verify_progress", NULL))
                          ELSE events)
                         \o <<Event("queue_progress", NULL)>>
    /\ UNCHANGED <<fs, bytes_copied, hasher, candidate_files>>
    /\ UNCHANGED wFrame
    /\ UNCHANGED nonQ

\* UPDATE queue SET status = 'completed', completed_at = ? WHERE id = ?
MarkCompleted(q, id) ==
    [i \in DOMAIN q |->
        IF i = id THEN [q[i] EXCEPT !.status = "completed"] ELSE q[i]]

\* UPDATE queue SET status = 'failed', error_message = ?, completed_at = ?,
\*                  retry_count = retry_count + 1 WHERE id = ?
MarkFailed(q, id, msg) ==
    [i \in DOMAIN q |->
        IF i = id THEN [q[i] EXCEPT !.status = "failed", !.error_message = msg,
                                    !.retry_count = @ + 1]
        ELSE q[i]]

\* _process_task after the executor returned: mark completed, finally-clause.
WorkerComplete ==
    /\ w_pc = "complete"
    /\ queue' = MarkCompleted(queue, task.id)
    /\ current_task_id' = 0
    /\ task' = NoTask
    /\ w_pc' = "idle"
    /\ UNCHANGED <<next_id, file_index, fs, clock, svc_paused, w_paused,
                   w_running, bytes_copied, hasher, candidate_files, vi>>
    /\ events' = Append(events, Event("task_complete", "completed"))
    /\ UNCHANGED nonQ

\* Variant: the worker loop ends with the task that failed.
WorkerFail_Stops ==
    /\ w_pc = "fail"
    /\ queue' = MarkFailed(queue, task.id, "Source file not found")
    /\ current_task_id' = 0
    /\ task' = NoTask
    /\ w_pc' = "stopped"
    /\ w_running' = FALSE
    /\ UNCHANGED <<next_id, file_index, fs, clock, svc_paused, w_paused,
                   bytes_copied, hasher, candidate_files, vi>>
    /\ events' = Append(events, Event("task_complete", "failed"))
    /\ UNCHANGED nonQ

\* _process_task, except Exception: mark failed, finally-clause.
WorkerFail ==
    /\ w_pc = "fail"
    /\ queue' = MarkFailed(queue, task.id, "Source file not found")
    /\ current_task_id' = 0
    /\ task' = NoTask
    /\ w_pc' = "idle"
    /\ UNCHANGED <<next_id, file_index, fs, clock, svc_paused, w_paused,
                   w_running, bytes_copied, hasher, candidate_files, vi>>
    /\ events' = Append(events, Event("task_complete", "failed"))
    /\ UNCHANGED nonQ

\* ============================================================= downloader
\* settings.downloader_max_concurrent, through max(1, int(...))
MaxConcurrent == 1

NoTotal == -1               \* total_bytes = None

Urls == {"h/a.bin", "h/dl"}

\* _url_basename
UrlBasename(url) == IF url = "h/a.bin" THEN "a.bin" ELSE "dl"

\* The file name the server of a URL sends in Content-Disposition, after
\* _parse_content_disposition (NULL: no such header).
ContentDisposition(url) == IF url = "h/dl" THEN "b.bin" ELSE NULL

JobTerminal == {"completed", "failed", "cancelled"}

\* dataclass DownloadJob; dest_path is <downloads>/filename and temp_path is
\* dest_path + ".part" throughout, so both are identified by filename.
NewJob(id, url, filename, force) ==
    [id |-> id, url |-> url, filename |-> filename, status |-> "queued",
     bytes_downloaded |-> 0, total_bytes |-> NoTotal, error_message |-> NULL,
     attempts |-> 0, cancelled |-> FALSE, force_start |-> force]

NewThread == [pc |-> "loop", existing_size |-> 0, remaining |-> 0]

\* A job that is waiting or whose thread has not returned.
Live(j) ==
    \/ jobs[j].status = "queued"
    \/ j \in DOMAIN thr /\ thr[j].pc # "done"

\* _start_job_locked applied to the set S of jobs.
StartLocked(js, S) ==
    /\ jobs' = [j \in DOMAIN js |->
                  IF j \in S THEN [js[j] EXCEPT !.status = "running"] ELSE js[j]]
    /\ active' = active \cup S
    /\ thr' = [j \in (DOMAIN thr) \cup S |-> IF j \in S THEN NewThread ELSE thr[j]]

dlFiles == <<dest_files, part_files>>

\* The columns of a download_jobs row that the model follows.
JobRow(job) ==
    [url |-> job.url, filename |-> job.filename, status |-> job.status,
     attempts |-> job.attempts]

\* _persist_job: INSERT OR REPLACE INTO download_jobs (id, ...), the row
\* with the job's id is written whether or not one exists.
PersistJob(store, job) == Put(store, job.id, JobRow(job))

\* _persist_job_sync for the jobs of S, as they are after the step.
PersistJobs(S) ==
    download_jobs' = [id \in DOMAIN download_jobs \cup S |->
                        IF id \in S THEN PersistJob(download_jobs, jobs'[id])[id]
                        ELSE download_jobs[id]]

\* create_job (POST /downloader/jobs), including its call of start_job.
\* The file name comes from the URL; a URL is not requested again while a
\* job for it is waiting or running.
CreateJob(url, start_now) ==
    /\ dl_next_id <= MaxJobs
    /\ \A j \in DOMAIN jobs : jobs[j].url = url => ~Live(j)
    /\ LET id == dl_next_id
           js == Put(jobs, id, NewJob(id, url, UrlBasename(url), start_now))
       IN  IF ~start_now /\ Cardinality(active) >= MaxConcurrent
           THEN /\ jobs' = js
                /\ UNCHANGED <<active, thr>>
           ELSE StartLocked(js, {id})
    /\ dl_next_id' = dl_next_id + 1
    /\ UNCHANGED dlFiles
    /\ PersistJobs({dl_next_id})
    /\ UNCHANGED nonD

\* start_job answers False for a job in one of these statuses.
StartRefused(js, j) ==
    js[j].status \in {"running", "completed", "failed", "cancelled"}

\* start_job (POST /downloader/jobs/{id}/start)
StartJob(j, force) ==
    /\ j \in DOMAIN jobs
    /\ IF StartRefused(jobs, j)
       THEN UNCHANGED <<jobs, active, thr>>
       ELSE IF ~force /\ Cardinality(active) >= MaxConcurrent
       THEN /\ jobs' = [jobs EXCEPT ![j].status = "queued"]
            /\ UNCHANGED <<active, thr>>
       ELSE StartLocked([jobs EXCEPT ![j].force_start = force], {j})
    /\ UNCHANGED <<dl_next_id, dest_files, part_files>>
    /\ PersistJobs(IF StartRefused(jobs, j) THEN {} ELSE {j})
    /\ UNCHANGED nonD

\* cancel_job (POST /downloader/jobs/{id}/cancel)
CancelJob(j) ==
    /\ j \in DOMAIN jobs
    /\ jobs' = [jobs EXCEPT ![j].cancelled = TRUE, ![j].status = "cancelled"]
    /\ UNCHANGED <<active, dl_next_id, thr, dest_files, part_files>>
    /\ PersistJobs({j})
    /\ UNCHANGED nonD

\* cancel_all (POST /downloader/jobs/cancel-all)
CancelAllJobs ==
    /\ jobs' = [j \in DOMAIN jobs |->
                  IF jobs[j].status \in JobTerminal THEN jobs[j]
                  ELSE [jobs[j] EXCEPT !.cancelled = TRUE, !.status = "cancelled"]]
    /\ UNCHANGED <<active, dl_next_id, thr, dest_files, part_files>>
    /\ PersistJobs({j \in DOMAIN jobs : jobs[j].status \notin JobTerminal})
    /\ UNCHANGED nonD

\* Variant: the scheduler admits every queued job.
Admitted_NoCap(js, act) ==
    {j \in DOMAIN js : js[j].status = "queued" /\ ~js[j].cancelled}

\* _scheduler_loop: the queued jobs one pass starts, lowest ids first, until
\* the active set holds max_concurrent jobs.
Admitted(js, act) ==
    LET queued == {j \in DOMAIN js : js[j].status = "queued" /\ ~js[j].cancelled}
    IN  {j \in queued :
            Cardinality({k \in queued : k < j}) + Cardinality(act) < MaxConcurrent}

SchedulerStep ==
    /\ Admitted(jobs, active) # {}
    /\ StartLocked(jobs, Admitted(jobs, active))
    /\ UNCHANGED <<dl_next_id, dest_files, part_files>>
    /\ PersistJobs(Admitted(jobs, active))
    /\ UNCHANGED nonD

\* ---- _run_job, the thread of job j
tFrame == <<dl_next_id>>

\* return from _run_job: the finally-clause discards the job from _active.
Exit(j) ==
    /\ active' = active \ {j}
    /\ thr' = [thr EXCEPT ![j].pc = "done"]

\* Variant: every attempt asks for the whole resource.
RangeStart_Zero(part, name) == 0

\* existing_size: the size of temp_path, or 0 if it does not exist.  A value
\* above 0 is sent as "Range: bytes=<existing_size>-".
RangeStart(part, name) == IF name \in DOMAIN part THEN part[name] ELSE 0

\* Head of the retry loop, up to sending the request.
T_Loop(j) ==
    /\ j \in DOMAIN thr
    /\ thr[j].pc = "loop"
    /\ IF jobs[j].cancelled
       THEN /\ jobs' = [jobs EXCEPT ![j].status = "cancelled"]
            /\ Exit(j)
       ELSE /\ jobs[j].attempts < MaxAttempts
            /\ jobs' = [jobs EXCEPT ![j].attempts = @ + 1,
                                    ![j].status = "running",
                                    ![j].error_message = NULL]
            /\ thr' = [thr EXCEPT ![j].pc = "request",
                                  ![j].existing_size =
                                      RangeStart(part_files, jobs[j].filename)]
            /\ UNCHANGED active
    /\ UNCHANGED <<dest_files, part_files>>
    /\ UNCHANGED tFrame
    /\ PersistJobs({j})
    /\ UNCHANGED nonD

\* The two servers.  The one of "h/a.bin" honours Range (206 Partial Content
\* from an offset inside the resource) and sends Content-Length; the one of
\* "h/dl" ignores Range (200 and the whole body) and sends no Content-Length.
HonoursRange(url) == url = "h/a.bin"

SendsLength(url) == url = "h/a.bin"

\* The status codes below 400 a server may answer to Range: bytes=range_start-
\* (range_start = 0: no Range header).  An offset at or past the end of the
\* resource gets no such answer (416).
StatusCodes(url, range_start) ==
    IF range_start > 0 /\ HonoursRange(url)
    THEN (IF range_start < ServerChunks THEN {206} ELSE {})
    ELSE {200}

\* The request fails: HTTP >= 400 or an exception that is neither a read
\* timeout nor a connection error.  The job is marked failed.
T_Failed(j) ==
    /\ j \in DOMAIN thr
    /\ thr[j].pc \in {"request", "stream"}
    /\ LET msg == IF thr[j].pc = "request" THEN "HTTP" ELSE "exception"
       IN  jobs' = [jobs EXCEPT ![j].status = "failed", ![j].error_message = msg]
    /\ Exit(j)
    /\ UNCHANGED <<dest_files, part_files>>
    /\ UNCHANGED tFrame
    /\ PersistJobs({j})
    /\ UNCHANGED nonD

\* ReadTimeout or ConnectionError, while connecting or while reading: the
\* loop is retried, temp_path is left as it is.
T_Stall(j) ==
    /\ j \in DOMAIN thr
    /\ thr[j].pc \in {"request", "stream"}
    /\ LET msg == IF thr[j].pc = "request" THEN "stall_timeout"
                  ELSE "connection_error"
       IN  jobs' = [jobs EXCEPT ![j].error_message = msg]
    /\ thr' = [thr EXCEPT ![j].pc = "loop"]
    /\ UNCHANGED <<active, dest_files, part_files>>
    /\ UNCHANGED tFrame
    /\ PersistJobs({})
    /\ UNCHANGED nonD

\* A response below 400: Content-Disposition rename, write mode, total size,
\* open(temp_path, mode).
T_Response(j) ==
    /\ j \in DOMAIN thr
    /\ thr[j].pc = "request"
    /\ \E code \in StatusCodes(jobs[j].url, thr[j].existing_size) :
          LET job       == jobs[j]
              has_length == SendsLength(job.url)
              sent      == IF code = 206 THEN ServerChunks - thr[j].existing_size
                           ELSE ServerChunks
              suggested == ContentDisposition(job.url)
              renamed   == suggested # NULL /\ suggested # job.filename
              name      == IF renamed THEN suggested ELSE job.filename
              part1     == IF renamed /\ job.filename \in DOMAIN part_files
                           THEN Put(Remove(part_files, job.filename), suggested,
                                    part_files[job.filename])
                           ELSE part_files
              existing1 == IF renamed
                           THEN (IF name \in DOMAIN part1 THEN part1[name] ELSE 0)
                           ELSE thr[j].existing_size
              reset     == existing1 > 0 /\ code = 200
              existing2 == IF reset THEN 0 ELSE existing1
              append    == existing1 > 0 /\ ~reset
              total     == IF has_length THEN sent + existing2 ELSE NoTotal
          IN  /\ jobs' = [jobs EXCEPT ![j].filename = name,
                                      ![j].total_bytes = total,
                                      ![j].bytes_downloaded = existing2]
              /\ part_files' = IF append /\ name \in DOMAIN part1 THEN part1
                               ELSE Put(part1, name, 0)
              /\ thr' = [thr EXCEPT ![j].pc = "stream",
                                    ![j].existing_size = 0,
                                    ![j].remaining = sent]
    /\ UNCHANGED <<active, dest_files>>
    /\ UNCHANGED tFrame
    /\ PersistJobs({})
    /\ UNCHANGED nonD

\* One chunk from iter_content: stop if the job is cancelled, else write it.
T_Chunk(j) ==
    /\ j \in DOMAIN thr
    /\ thr[j].pc = "stream"
    /\ thr[j].remaining > 0
    /\ IF jobs[j].cancelled
       THEN /\ jobs' = [jobs EXCEPT ![j].status = "cancelled"]
            /\ Exit(j)
            /\ UNCHANGED part_files
       ELSE /\ jobs' = [jobs EXCEPT ![j].bytes_downloaded = @ + 1]
            /\ part_files' = [part_files EXCEPT ![jobs[j].filename] = @ + 1]
            /\ thr' = [thr EXCEPT ![j].remaining = @ - 1]
            /\ UNCHANGED active
    /\ UNCHANGED dest_files
    /\ UNCHANGED tFrame
    /\ (IF jobs[j].cancelled THEN PersistJobs({})
        ELSE \E S \in {{}, {j}} : PersistJobs(S))
    /\ UNCHANGED nonD

\* Variant: the job is marked completed without the rename.
FinishFiles_NoRename(dest, part, name) == [dest |-> dest, part |-> part]

\* job.temp_path.replace(job.dest_path)
FinishFiles(dest, part, name) ==
    [dest |-> Put(dest, name, part[name]), part |-> Remove(part, name)]

\* The stream has ended: "Completed?" and the unknown-total case; otherwise
\* the loop is retried.
T_EndOfStream(j) ==
    /\ j \in DOMAIN thr
    /\ thr[j].pc = "stream"
    /\ thr[j].remaining = 0
    /\ LET job == jobs[j]
       IN  IF \/ job.total_bytes > 0 /\ job.bytes_downloaded >= job.total_bytes
              \/ ~(job.total_bytes > 0)
           THEN /\ dest_files' = FinishFiles(dest_files, part_files, job.filename).dest
                /\ part_files' = FinishFiles(dest_files, part_files, job.filename).part
                /\ jobs' = [jobs EXCEPT ![j].status = "completed"]
                /\ Exit(j)
           ELSE /\ thr' = [thr EXCEPT ![j].pc = "loop"]
                /\ UNCHANGED <<jobs, active, dest_files, part_files>>
    /\ UNCHANGED tFrame
    /\ PersistJobs(IF thr'[j].pc = "done" THEN {j} ELSE {})
    /\ UNCHANGED nonD

\* ========================================================= remote broker
\* settings.remote_session_ttl_minutes; it is the unit of r_now.
SessionTTL == 1

NoAgent == [connected |-> FALSE, info |-> NULL, last_heartbeat |-> NoTime]

\* since: the number of task ids produced when the poll began to wait.
NoPoll == [pc |-> "idle", event |-> "none", by |-> "none", task |-> 0,
           since |-> 0]

\* What the remote broker leaves alone.
nonR == <<qvars, dvars, xvars>>

\* Variant: a session never expires.
IsActive_NoExpiry(key, exp, now) == key # 0 /\ exp # NoTime

\* is_active, as a value
IsActive(key, exp, now) == key # 0 /\ exp # NoTime /\ ~(now > exp)

Active == IsActive(api_key, expires_at, r_now)

\* The case in which is_active calls end_session.
Expired == api_key # 0 /\ expires_at # NoTime /\ ~Active

\* end_session: a poll that is waiting keeps the Event object it awaits,
\* which is no longer the manager's _task_event.
Ended ==
    /\ api_key' = 0
    /\ expires_at' = NoTime
    /\ agent' = NoAgent
    /\ r_tasks' = <<>>
    /\ task_event' = FALSE
    /\ poll' = IF poll.pc = "waiting" /\ poll.event = "shared"
               THEN [poll EXCEPT !.event = IF task_event THEN "orphan_set"
                                           ELSE "orphan_clear"]
               ELSE poll

sessionVars == <<api_key, expires_at, agent, r_tasks, task_event, poll>>

\* is_active answering False: the expired session is cleaned up.
Inactive == IF Expired THEN Ended ELSE UNCHANGED sessionVars

RTick ==
    /\ r_now < MaxRClock
    /\ r_now' = r_now + 1
    /\ UNCHANGED <<sessionVars, keys_issued, r_next_id>>
    /\ UNCHANGED nonR

\* enable_session (POST /session/enable); the new key is one never seen.
EnableSession ==
    /\ keys_issued < MaxKeys
    /\ keys_issued' = keys_issued + 1
    /\ api_key' = keys_issued + 1
    /\ expires_at' = r_now + SessionTTL
    /\ agent' = NoAgent
    /\ UNCHANGED <<r_tasks, task_event, poll, r_next_id, r_now>>
    /\ UNCHANGED nonR

\* end_session (POST /session/end)
EndSession ==
    /\ Ended
    /\ UNCHANGED <<keys_issued, r_next_id, r_now>>
    /\ UNCHANGED nonR

\* get_status (GET /status) reads is_active.
GetStatus ==
    /\ IF Active THEN UNCHANGED sessionVars ELSE Inactive
    /\ UNCHANGED <<keys_issued, r_next_id, r_now>>
    /\ UNCHANGED nonR

\* validate_key, as a value
ValidateKey(k) == Active /\ k = api_key

\* get_tasks (GET /tasks)
GetTasks == r_tasks

\* POST /agent/register with bearer k: verify_remote_auth, register_agent
\* and its heartbeat.
AgentRegister(k) ==
    /\ IF ValidateKey(k)
       THEN /\ agent' = [connected |-> TRUE, info |-> "host",
                         last_heartbeat |-> r_now]
            /\ UNCHANGED <<api_key, expires_at, r_tasks, task_event, poll>>
       ELSE IF Active THEN UNCHANGED sessionVars ELSE Inactive
    /\ UNCHANGED <<keys_issued, r_next_id, r_now>>
    /\ UNCHANGED nonR

\* ---- remote tasks
NoProgress == -1            \* TaskProgressUpdate.progress = None

\* RemoteTask; payload["items"] is the only payload entry modelled.
NewRTask(id, type, items) ==
    [id |-> id, type |-> type, status |-> "pending", items |-> items,
     progress |-> 0, message |-> "", error |-> NULL, meta |-> EmptyMap]

RTerminal == {"completed", "failed", "cancelled"}

\* Index of the task with this id in the list, 0 if there is none.
RIndex(tasks, id) ==
    IF \E i \in DOMAIN tasks : tasks[i].id = id
    THEN CHOOSE i \in DOMAIN tasks : tasks[i].id = id
    ELSE 0

\* _get_next_pending: id of the first pending task, 0 for None.
NextPending(tasks) ==
    LET P == {i \in DOMAIN tasks : tasks[i].status = "pending"}
    IN  IF P = {} THEN 0
        ELSE tasks[CHOOSE i \in P : \A k \in P : i <= k].id

\* _task_item_key: "relpath:<relpath>", else "url:<url>", else None.
NoKey == <<>>

ItemKey(item) ==
    IF item.relpath # NULL THEN <<"relpath", item.relpath>>
    ELSE IF item.url # NULL THEN <<"url", item.url>>
    ELSE NoKey

\* The first occurrence of every key of the list, keyless items dropped.
RECURSIVE UniqItems(_, _)
UniqItems(items, seen) ==
    IF items = <<>> THEN <<>>
    ELSE LET key == ItemKey(Head(items))
         IN  IF key = NoKey \/ key \in seen
             THEN UniqItems(Tail(items), seen)
             ELSE <<Head(items)>> \o UniqItems(Tail(items), seen \cup {key})

\* _active_download_tasks: indices of the DOWNLOAD_URLS tasks in a status.
DownloadTasks(tasks, st) ==
    {i \in DOMAIN tasks : tasks[i].type = "DOWNLOAD_URLS" /\ tasks[i].status = st}

ExistingKeys(tasks) ==
    LET act == DownloadTasks(tasks, "running") \cup DownloadTasks(tasks, "pending")
    IN  UNION {{ItemKey(tasks[i].items[n]) : n \in DOMAIN tasks[i].items} :
                  i \in act} \ {NoKey}

Last(S) == CHOOSE i \in S : \A k \in S : k <= i

\* Variant: a follow-up task is created although a pending one exists.
MergeIntoPending_NewTask(tasks, new_items, nid) ==
    [tasks |-> Append(tasks, NewRTask(nid, "DOWNLOAD_URLS", new_items)),
     made |-> TRUE]

\* "Prefer appending to an existing pending queue extension if present."
MergeIntoPending(tasks, new_items, nid) ==
    LET target == Last(DownloadTasks(tasks, "pending"))
    IN  [tasks |-> [tasks EXCEPT ![target].items = @ \o new_items,
                                 ![target].message = "Queued"],
         made |-> FALSE]

\* _enqueue_or_merge_download_urls: the task list afterwards, and whether
\* _make_task ran (which also sets the event).
MergeDownloadUrls(tasks, incoming, nid) ==
    LET uniq_items == UniqItems(incoming, {})
        existing   == ExistingKeys(tasks)
        new_items  == SelectSeq(uniq_items, LAMBDA it : ItemKey(it) \notin existing)
        pending    == DownloadTasks(tasks, "pending")
        running    == DownloadTasks(tasks, "running")
    IN  IF new_items = <<>>
        THEN IF pending # {} \/ running # {}
             THEN [tasks |-> tasks, made |-> FALSE]
             ELSE [tasks |-> Append(tasks, NewRTask(nid, "DOWNLOAD_URLS", uniq_items)),
                   made |-> TRUE]
        ELSE IF pending # {}
        THEN MergeIntoPending(tasks, new_items, nid)
        ELSE [tasks |-> Append(tasks, NewRTask(nid, "DOWNLOAD_URLS", new_items)),
              made |-> TRUE]

\* enqueue_task (POST /tasks/enqueue)
EnqueueTask(type, incoming) ==
    /\ IF ~Active
       THEN /\ Inactive
            /\ UNCHANGED r_next_id
       ELSE LET res == IF type = "DOWNLOAD_URLS"
                       THEN MergeDownloadUrls(r_tasks, incoming, r_next_id)
                       ELSE [tasks |-> Append(r_tasks, NewRTask(r_next_id, type, incoming)),
                             made |-> TRUE]
            IN  /\ res.made => r_next_id <= MaxRTasks
                /\ r_tasks' = res.tasks
                /\ r_next_id' = IF res.made THEN r_next_id + 1 ELSE r_next_id
                /\ task_event' = (task_event \/ res.made)
                /\ UNCHANGED <<api_key, expires_at, agent, poll>>
    /\ UNCHANGED <<keys_issued, r_now>>
    /\ UNCHANGED nonR

\* GET /tasks/next with bearer k, up to the await in wait_for_task.
PollStart(k) ==
    /\ poll.pc = "idle"
    /\ IF ~ValidateKey(k)
       THEN IF Active THEN UNCHANGED sessionVars ELSE Inactive
       ELSE /\ poll' = IF NextPending(r_tasks) # 0
                       THEN [pc |-> "idle", event |-> "none",
                             by |-> "immediate", task |-> NextPending(r_tasks),
                             since |-> 0]
                       ELSE [pc |-> "waiting", event |-> "shared",
                             by |-> "none", task |-> 0, since |-> r_next_id]
            /\ UNCHANGED <<api_key, expires_at, agent, r_tasks, task_event>>
    /\ UNCHANGED <<keys_issued, r_next_id, r_now>>
    /\ UNCHANGED nonR

\* The Event the poll awaits is set.
Woken ==
    \/ poll.event = "shared" /\ task_event
    \/ poll.event = "orphan_set"

\* wait_for_task after the await: _task_event.clear(), _get_next_pending().
PollWake ==
    /\ poll.pc = "waiting"
    /\ Woken
    /\ task_event' = FALSE
    /\ poll' = [pc |-> "idle", event |-> "none", by |-> "event",
                task |-> NextPending(r_tasks), since |-> 0]
    /\ UNCHANGED <<api_key, expires_at, agent, r_tasks>>
    /\ UNCHANGED <<keys_issued, r_next_id, r_now>>
    /\ UNCHANGED nonR

\* asyncio.TimeoutError after the 20 seconds of the poll.
PollTimeout ==
    /\ poll.pc = "waiting"
    /\ ~Woken
    /\ poll' = [pc |-> "idle", event |-> "none", by |-> "timeout", task |-> 0,
                since |-> 0]
    /\ UNCHANGED <<api_key, expires_at, agent, r_tasks, task_event>>
    /\ UNCHANGED <<keys_issued, r_next_id, r_now>>
    /\ UNCHANGED nonR

\* The TaskProgressUpdate bodies an agent sends.
Updates ==
    {[status |-> "running", progress |-> NoProgress, message |-> NULL,
      error |-> NULL, meta |-> EmptyMap],
     [status |-> "failed", progress |-> 1, message |-> "stopped",
      error |-> "e", meta |-> ("stage" :> "s")],
     [status |-> "cancelled", progress |-> NoProgress, message |-> NULL,
      error |-> NULL, meta |-> EmptyMap]}

\* Variant: an update is applied whatever the task's status.
ApplyUpdate_Always(t, u) ==
    [t EXCEPT !.status = u.status,
              !.progress = IF u.progress # NoProgress THEN u.progress ELSE @,
              !.message = IF u.message # NULL THEN u.message ELSE @,
              !.error = IF u.error # NULL THEN u.error ELSE @,
              !.meta = [x \in DOMAIN @ \cup DOMAIN u.meta |->
                           IF x \in DOMAIN u.meta THEN u.meta[x] ELSE @[x]]]

\* update_task_progress, for the task found
ApplyUpdate(t, u) ==
    IF t.status = "cancelled" /\ u.status # "cancelled"
    THEN t
    ELSE [t EXCEPT !.status = u.status,
                   !.progress = IF u.progress # NoProgress THEN u.progress ELSE @,
                   !.message = IF u.message # NULL THEN u.message ELSE @,
                   !.error = IF u.error # NULL THEN u.error ELSE @,
                   !.meta = [x \in DOMAIN @ \cup DOMAIN u.meta |->
                                IF x \in DOMAIN u.meta THEN u.meta[x] ELSE @[x]]]

\* POST /tasks/progress with bearer k
UpdateProgress(k, id, u) ==
    /\ IF ~ValidateKey(k)
       THEN IF Active THEN UNCHANGED sessionVars ELSE Inactive
       ELSE /\ r_tasks' = IF RIndex(r_tasks, id) = 0 THEN r_tasks
                          ELSE [r_tasks EXCEPT ![RIndex(r_tasks, id)] =
                                                   ApplyUpdate(@, u)]
            /\ UNCHANGED <<api_key, expires_at, agent, task_event, poll>>
    /\ UNCHANGED <<keys_issued, r_next_id, r_now>>
    /\ UNCHANGED nonR

\* cancel_task
CancelRTask(id) ==
    /\ r_tasks' = IF RIndex(r_tasks, id) = 0
                     \/ r_tasks[RIndex(r_tasks, id)].status \in RTerminal
                  THEN r_tasks
                  ELSE [r_tasks EXCEPT ![RIndex(r_tasks, id)].status = "cancelled",
                                       ![RIndex(r_tasks, id)].message =
                                           "Cancelled by user."]
    /\ UNCHANGED <<api_key, expires_at, agent, task_event, poll>>
    /\ UNCHANGED <<keys_issued, r_next_id, r_now>>
    /\ UNCHANGED nonR

\* ================================================= admission filter
\* Strings are sequences of one-character strings, so that split, lower
\* and startswith are computed on the characters.
UpperCase ==
    <<"A", "B", "C", "D", "E", "F", "G", "H", "I", "J", "K", "L", "M", "N",
    "O", "P", "Q", "R", "S", "T", "U", "V", "W", "X", "Y", "Z">>
LowerCase ==
    <<"a", "b", "c", "d", "e", "f", "g", "h", "i", "j", "k", "l", "m", "n",
    "o", "p", "q", "r", "s", "t", "u", "v", "w", "x", "y", "z">>

LowerChar(c) ==
    IF \E i \in DOMAIN UpperCase : UpperCase[i] = c
    THEN LowerCase[CHOOSE i \in DOMAIN UpperCase : UpperCase[i] = c]
    ELSE c

\* str.lower()
Lower(s) == [i \in DOMAIN s |-> LowerChar(s[i])]

\* str.startswith(p)
StartsWith(s, p) == Len(p) <= Len(s) /\ SubSeq(s, 1, Len(p)) = p

\* The positions at which p occurs in s.
Occurrences(s, p) ==
    {i \in 1..(Len(s) - Len(p) + 1) : SubSeq(s, i, i + Len(p) - 1) = p}

Min(S) == CHOOSE i \in S : \A k \in S : i <= k

\* s.split(p)[0]
BeforeFirst(s, p) ==
    IF Occurrences(s, p) = {} THEN s ELSE SubSeq(s, 1, Min(Occurrences(s, p)) - 1)

\* s.partition(p)[2]
AfterFirst(s, p) ==
    IF Occurrences(s, p) = {} THEN <<>>
    ELSE SubSeq(s, Min(Occurrences(s, p)) + Len(p), Len(s))

\* urlparse(url).hostname: the network location between "//" and the next
\* "/", without its port, in lower case; <<>> where there is none.
Hostname(url) ==
    Lower(BeforeFirst(BeforeFirst(AfterFirst(url, <<"/", "/">>), <<"/">>), <<":">>))

\* Settings.remote_base_url: https://your.domain.example
remote_base_url ==
    <<"h", "t", "t", "p", "s", ":", "/", "/", "y", "o", "u", "r", ".", "d",
    "o", "m", "a", "i", "n", ".", "e", "x", "a", "m", "p", "l", "e">>

\* The prefix of the paths let through on the external host: /api/remote
RemotePrefix == <<"/", "a", "p", "i", "/", "r", "e", "m", "o", "t", "e">>

\* filter_external_traffic: the answer to a request.
filter_external_traffic(host, path) ==
    LET host_header == BeforeFirst(host, <<":">>)
        remote_host == Hostname(remote_base_url)
    IN  IF /\ remote_host # <<>>
           /\ Lower(host_header) = Lower(remote_host)
           /\ ~StartsWith(path, RemotePrefix)
        THEN "403"
        ELSE "call_next"

\* The middleware answers the request.
FilterExternalTraffic ==
    /\ http_resp = "none"
    /\ http_req # NoRequest
    /\ http_resp' = filter_external_traffic(http_req.host, http_req.path)
    /\ UNCHANGED <<http_req, ddvars, source_urls, checked, loops>>
    /\ UNCHANGED <<qvars, dvars, rvars>>

\* ================================================================= dedupe
\* HasherService.hash_all_pending: every row of the side without a hash
\* whose file exists gets the full hash of the file (get_hash, nothing cached).
HashAllPending(idx, files, side, now) ==
    LET table == idx[side]
    IN  [idx EXCEPT ![side] =
            [r \in DOMAIN table |->
                IF table[r].hash = NoHash /\ r \in DOMAIN files[side]
                THEN [table[r] EXCEPT !.hash = FullHash(files[side][r].data),
                                      !.hash_computed_at = now]
                ELSE table[r]]]

\* The relpaths of a side whose row carries hash h.
WithHash(idx, side, h) == {r \in DOMAIN idx[side] : idx[side][r].hash = h}

\* GROUP BY hash HAVING cnt > 1, over the rows WHERE hash IS NOT NULL.
DupHashes(idx, side) ==
    {h \in {idx[side][r].hash : r \in DOMAIN idx[side]} :
        h # NoHash /\ Cardinality(WithHash(idx, side, h)) > 1}

Pos(q, x) == CHOOSE k \in DOMAIN q : q[k] = x

\* The orders in which scan inserts the files: the groups in the order the
\* first SELECT returned the hashes, the files of a group in the order the
\* second SELECT returned them (neither has an ORDER BY).
InsertOrders(idx, side) ==
    LET hs == DupHashes(idx, side)
        rs == UNION {WithHash(idx, side, h) : h \in hs}
    IN  {o \in [gs : Orders(hs), fo : Orders(rs)] :
            \A i, k \in DOMAIN o.fo :
                i < k => Pos(o.gs, idx[side][o.fo[i]].hash)
                            <= Pos(o.gs, idx[side][o.fo[k]].hash)}

\* DedupeService.scan: hash what has no hash, then one dedupe_groups row per
\* duplicated hash and one dedupe_files row per file carrying it; the first
\* file inserted for a group has keep = 1.
DedupeScan(side) ==
    /\ scans < MaxScans
    /\ scans' = scans + 1
    /\ file_index' = HashAllPending(file_index, fs, side, clock)
    /\ \E o \in InsertOrders(file_index', side) :
          LET g0 == Cardinality(DOMAIN dedupe_groups)
              f0 == Cardinality(DOMAIN dedupe_files)
              table == file_index'[side]
              gid(r) == g0 + Pos(o.gs, table[r].hash)
          IN  /\ dedupe_groups' = dedupe_groups @@
                    [g \in {g0 + k : k \in DOMAIN o.gs} |->
                        [id |-> g, side |-> side, hash |-> o.gs[g - g0],
                         scan_id |-> scans', created_at |-> clock]]
              /\ dedupe_files' = dedupe_files @@
                    [f \in {f0 + k : k \in DOMAIN o.fo} |->
                        LET r == o.fo[f - f0]
                        IN  [id |-> f, group_id |-> gid(r), relpath |-> r,
                             size |-> table[r].size,
                             mtime_ns |-> table[r].mtime_ns,
                             keep |-> IF \A k \in 1..(f - f0 - 1) :
                                            gid(o.fo[k]) # gid(r)
                                      THEN 1 ELSE 0]]
    /\ UNCHANGED <<queue, next_id, fs, clock, svc_paused, w_paused, w_running,
                   wlocals>>
    /\ UNCHANGED <<dedupe_result, fvars, source_urls, checked, loops>>
    /\ UNCHANGED <<dvars, rvars>>

\* DedupeService.get_groups: the groups of a scan.
GetGroups(scan_id) ==
    {g \in DOMAIN dedupe_groups : dedupe_groups[g].scan_id = scan_id}

\* The files of a group.
GroupFiles(g) == {f \in DOMAIN dedupe_files : dedupe_files[f].group_id = g}

\* execute's query: dedupe_groups JOIN dedupe_files WHERE scan_id = ?
AllFiles(scan_id) ==
    {[side |-> dedupe_groups[dedupe_files[f].group_id].side,
      relpath |-> dedupe_files[f].relpath,
      size |-> dedupe_files[f].size] :
        f \in UNION {GroupFiles(g) : g \in GetGroups(scan_id)}}

\* keep_set = {s.keep_relpath for s in selections}
KeepSet(selections) == {sel.keep_relpath : sel \in selections}

\* The rows execute unlinks, had the allow-delete policy been consulted.
NotKept_Policy(rows, keep_set) ==
    {f \in rows : f.relpath \notin keep_set /\ AllowDelete[f.side]}

\* The rows execute unlinks: if f["relpath"] not in keep_set.
NotKept(rows, keep_set) == {f \in rows : f.relpath \notin keep_set}

SumSize(S) ==
    LET RECURSIVE sum(_)
        sum(T) == IF T = {} THEN 0
                  ELSE LET f == CHOOSE x \in T : TRUE
                       IN  f.size + sum(T \ {f})
    IN  sum(S)

\* The rows whose unlink succeeds: the file is there.
Unlinked(files, doomed) == {f \in doomed : f.relpath \in DOMAIN files[f.side]}

\* DedupeService.execute: unlink every file of the scan that is not in
\* keep_set; an unlink of a file that is not there raises and is reported.
DedupeExecute(scan_id, selections) ==
    /\ fs' = [sd \in Sides |->
                [r \in DOMAIN fs[sd] \
                    {f.relpath :
                        f \in {x \in Unlinked(fs, NotKept(AllFiles(scan_id),
                                                          KeepSet(selections))) :
                                  x.side = sd}} |->
                    fs[sd][r]]]
    /\ LET doomed == NotKept(AllFiles(scan_id), KeepSet(selections))
           gone   == Unlinked(fs, doomed)
       IN  dedupe_result' = [scan_id |-> scan_id, selections |-> selections,
                             deleted |-> Cardinality(gone),
                             freed_bytes |-> SumSize(gone),
                             errors |-> {f.relpath : f \in doomed \ gone}]
    /\ UNCHANGED <<queue, next_id, file_index, clock, svc_paused, w_paused,
                   w_running, wlocals>>
    /\ UNCHANGED <<dedupe_groups, dedupe_files, scans, fvars, source_urls, checked,
                   loops>>
    /\ UNCHANGED <<dvars, rvars>>

\* ============================================================ source URLs
\* f"relpath:{relpath}": the key of an entry for a file without a hash.
RelpathKey(relpath) == <<"relpath", relpath>>

\* SourceManager.set_source_by_relpath: INSERT OR REPLACE under the relpath key.
SetSourceByRelpath(src, relpath, url) ==
    Put(src, RelpathKey(relpath), [url |-> url, relpath |-> relpath])

\* The rows the endpoints look for before inserting a hash_file task.
HashQueued(q, relpath) ==
    \E i \in DOMAIN q : /\ q[i].task_type = "hash_file"
                        /\ q[i].src_relpath = relpath
                        /\ q[i].status \in {"pending", "running"}

\* INSERT INTO queue (task_type, src_relpath, created_at, size_bytes)
HashFileRow(id, relpath, now) ==
    NewRow(id, "hash_file", NULL, relpath, NULL, NULL, NULL, now)

\* PUT /api/index/sources/by-relpath/{relpath}: store the URL under the
\* relpath key and, if asked and none is queued, insert a hash_file task.
SetSourceUrlByRelpath(relpath, url, queue_hash) ==
    /\ Up
    /\ source_urls' = SetSourceByRelpath(source_urls, relpath, url)
    /\ IF queue_hash /\ ~HashQueued(queue, relpath)
       THEN Insert(HashFileRow(next_id, relpath, clock))
       ELSE UNCHANGED <<queue, next_id>>
    /\ UNCHANGED apiFrame
    /\ UNCHANGED <<fvars, ddvars, checked, loops>>
    /\ UNCHANGED <<dvars, rvars>>

\* POST /api/index/hash-file
QueueHashFile(relpath) ==
    /\ Up
    /\ ~HashQueued(queue, relpath)
    /\ Insert(HashFileRow(next_id, relpath, clock))
    /\ UNCHANGED apiFrame
    /\ UNCHANGED nonQ

\* ----------------------------------------------------------------- hasher
\* hash_value = f"fast:{raw_hash}"
FastHash(data) == <<"fast:", data>>

\* The SELECT of get_hash: the row's hash if size and mtime still match.
CachedHash(idx, files, side, r, force) ==
    IF /\ ~force
       /\ r \in DOMAIN idx[side]
       /\ idx[side][r].size = Len(files[side][r].data)
       /\ idx[side][r].mtime_ns = files[side][r].mtime
    THEN idx[side][r].hash
    ELSE NoHash

\* HasherService.get_hash when it computes: the file exists and no cached
\* hash serves the mode.  (Otherwise it returns without writing.)
GetHash(side, r, force, mode) ==
    /\ Up
    /\ r \in DOMAIN fs[side]
    /\ LET cached == CachedHash(file_index, fs, side, r, force)
       IN  ~ (cached # NoHash /\ (mode = "fast" \/ IsFullHash(cached)))
    /\ file_index' = SetHash(file_index, side, r,
                             IF mode = "fast" THEN FastHash(fs[side][r].data)
                                              ELSE FullHash(fs[side][r].data),
                             clock)
    /\ UNCHANGED <<queue, next_id, fs, clock, svc_paused, w_paused, w_running,
                   wlocals>>
    /\ UNCHANGED nonQ

\* DownloadManager._record_source_url for a finished download at local/r:
\* the source under the relpath key, a file_index row without hash if there
\* is none, and a hash_file task if none is queued.
RecordSourceUrl(r, url) ==
    /\ Up
    /\ r \in DOMAIN fs["local"]
    /\ source_urls' = SetSourceByRelpath(source_urls, r, url)
    /\ file_index' =
          IF r \in DOMAIN file_index["local"] THEN file_index
          ELSE [file_index EXCEPT !["local"] =
                   Put(@, r, Rec(Len(fs["local"][r].data), fs["local"][r].mtime,
                                 NoHash, NoTime))]
    /\ IF HashQueued(queue, r)
       THEN UNCHANGED <<queue, next_id>>
       ELSE Insert(HashFileRow(next_id, r, clock))
    /\ UNCHANGED <<fs, clock, svc_paused, w_paused, w_running, wlocals>>
    /\ UNCHANGED <<fvars, ddvars, checked, loops>>
    /\ UNCHANGED <<dvars, rvars>>

\* ------------------------------------------------ handlers, statement by
\* statement.  Each handler opens a connection of its own (get_db) and awaits
\* between its SELECT and its INSERT, so another handler may run in between.
MaxHandlers == 2
Handlers == 1..MaxHandlers

\* A handler that is not between its SELECT and its INSERT.
NoCheck == [task_type |-> NULL, src_relpath |-> NULL, verify_folder |-> NULL]

\* SELECT id FROM queue WHERE task_type='verify' AND src_relpath=? /
\* verify_folder=? AND status IN ('pending', 'running')
VerifyQueued(q, relpath, folder) ==
    \E i \in DOMAIN q :
        /\ q[i].task_type = "verify"
        /\ q[i].status \in {"pending", "running"}
        /\ IF relpath # NULL THEN q[i].src_relpath = relpath
                             ELSE q[i].verify_folder = folder

\* POST /api/index/verify up to the SELECT: nothing is queued for the target,
\* so the handler goes on to its INSERT.  (With a row found it returns.)
VerifyCheck(h, relpath, folder) ==
    /\ Up
    /\ checked[h] = NoCheck
    /\ ~VerifyQueued(queue, relpath, folder)
    /\ checked' = [checked EXCEPT ![h] = [task_type |-> "verify",
                                          src_relpath |-> relpath,
                                          verify_folder |-> folder]]
    /\ UNCHANGED <<qvars, dvars, rvars, fvars, ddvars, source_urls, loops>>

\* POST /api/index/hash-file up to the SELECT
HashCheck(h, relpath) ==
    /\ Up
    /\ checked[h] = NoCheck
    /\ ~HashQueued(queue, relpath)
    /\ checked' = [checked EXCEPT ![h] = [task_type |-> "hash_file",
                                          src_relpath |-> relpath,
                                          verify_folder |-> NULL]]
    /\ UNCHANGED <<qvars, dvars, rvars, fvars, ddvars, source_urls, loops>>

\* The INSERT and the commit of a handler that found nothing queued.
InsertChecked(h) ==
    /\ checked[h] # NoCheck
    /\ Insert(NewRow(next_id, checked[h].task_type, NULL, checked[h].src_relpath,
                     NULL, NULL, checked[h].verify_folder, clock))
    /\ checked' = [checked EXCEPT ![h] = NoCheck]
    /\ UNCHANGED apiFrame
    /\ UNCHANGED <<dvars, rvars, fvars, ddvars, source_urls, loops>>

\* ============================================================ initial state
\* A row the previous process may have left behind.
OrphanRow == [NewRow(1, "copy", "local", "d/a", "lake", "d/a", NULL, 0)
                 EXCEPT !.status = "running", !.started_at = 0,
                        !.bytes_transferred = 1]

File(data, mtime) == [data |-> data, mtime |-> mtime]

Ones == [k \in 1..MaxChunks |-> 1]

WorkerAtBoot ==
    /\ clock = 0
    /\ svc_paused = FALSE
    /\ w_paused = FALSE
    /\ w_running = FALSE
    /\ w_pc = "boot"
    /\ task = NoTask
    /\ current_task_id = 0
    /\ bytes_copied = 0
    /\ hasher = <<>>
    /\ candidate_files = <<>>
    /\ vi = 0
    /\ events = <<>>
    /\ loops = <<>>

\* DownloadManager.__init__
DownloaderAtBoot ==
    /\ jobs = EmptyMap
    /\ active = {}
    /\ dl_next_id = 1
    /\ thr = EmptyMap
    /\ dest_files = EmptyMap
    /\ part_files = EmptyMap
    /\ download_jobs = EmptyMap

\* RemoteSessionManager.__init__
RemoteAtBoot ==
    /\ api_key = 0
    /\ expires_at = NoTime
    /\ agent = NoAgent
    /\ r_tasks = <<>>
    /\ task_event = FALSE
    /\ keys_issued = 0
    /\ r_next_id = 1
    /\ r_now = 0
    /\ poll = NoPoll

\* No request has arrived.
FilterAtBoot ==
    /\ http_req = NoRequest
    /\ http_resp = "none"

\* The dedupe tables of a new database.
DedupeAtBoot ==
    /\ dedupe_groups = EmptyMap
    /\ dedupe_files = EmptyMap
    /\ scans = 0
    /\ dedupe_result = NoResult

\* The source_urls table of a new database.
SourcesAtBoot == source_urls = EmptyMap

\* No request is being handled when the process starts.
HandlersAtBoot == checked = [h \in Handlers |-> NoCheck]

PersistedQueue ==
    \E orphan \in BOOLEAN :
        /\ queue = IF orphan THEN (1 :> OrphanRow) ELSE EmptyMap
        /\ next_id = IF orphan THEN 2 ELSE 1

\* ------------------------------------------------ queue control (Spec)
\* Both roots hold d/a with equal content; the index is the one a refresh
\* of both sides left in the store.
FsBoth == [local |-> ("d/a" :> File(Ones, 1)), lake |-> ("d/a" :> File(Ones, 2))]

InitQ ==
    /\ DownloaderAtBoot
    /\ RemoteAtBoot
    /\ PersistedQueue
    /\ fs = FsBoth
    /\ file_index = ScanSide(ScanSide([s \in Sides |-> EmptyMap], FsBoth, "local"),
                             FsBoth, "lake")
    /\ WorkerAtBoot
    /\ FilterAtBoot
    /\ DedupeAtBoot
    /\ SourcesAtBoot
    /\ HandlersAtBoot

WorkerNext ==
    \/ WorkerSelect
    \/ WorkerMarkRunning
    \/ CopyOpen
    \/ CopyChunk
    \/ CopyFinal
    \/ ExecDelete
    \/ ExecNothing
    \/ VerifyFetch
    \/ VerifyStep
    \/ WorkerComplete
    \/ WorkerFail

NextQ ==
    \/ Startup
    \/ Tick
    \/ \E ss \in Sides, ds \in Sides : EnqueueCopy(ss, "d/a", ds, "d/a")
    \/ EnqueueMove(<<"lake">>, "d/a", "b")
    \/ EnqueueDelete("lake", "d/a", TRUE)
    \/ EnqueueVerifyFile("d/a")
    \/ \E id \in TaskIds : CancelTask(id)
    \/ CancelAll
    \/ \E id \in TaskIds : RemoveTask(id)
    \/ PauseQueue
    \/ ResumeQueue
    \/ WorkerNext

Spec == InitQ /\ [][NextQ]_vars

\* ------------------------------------------------ index and copy (SpecIdx)
\* The two roots at process start; the index starts empty.
InitFs ==
    { [local |-> ("d/a" :> File(d, 1)), lake |-> lk] :
        d \in {<<>>, Ones},
        lk \in { EmptyMap,
                 ("d/a" :> File(Ones, 2)) @@ ("b" :> File(<<2>>, 1)) } }

InitIdx ==
    /\ DownloaderAtBoot
    /\ RemoteAtBoot
    /\ queue = EmptyMap
    /\ next_id = 1
    /\ fs \in InitFs
    /\ file_index = [s \in Sides |-> EmptyMap]
    /\ WorkerAtBoot
    /\ FilterAtBoot
    /\ DedupeAtBoot
    /\ SourcesAtBoot
    /\ HandlersAtBoot

CopyInputs == {<<"local", "d/a", "lake", "d/a">>, <<"local", "d/a", "lake", "b">>,
               <<"lake", "d/a", "local", "d/a">>}

NextIdx ==
    \/ Startup
    \/ Tick
    \/ \E c \in CopyInputs : EnqueueCopy(c[1], c[2], c[3], c[4])
    \/ \E side \in Sides : EnqueueDelete(side, "d/a", TRUE)
    \/ EnqueueVerifyFolder("")
    \/ EnqueueMove(<<"lake">>, "d/a", "b")
    \/ \E side \in Sides : RefreshIndex(side)
    \/ WorkerNext

SpecIdx == InitIdx /\ [][NextIdx]_vars

TypeOKQ == /\ DOMAIN queue \subseteq TaskIds
           /\ next_id \in 1..(MaxTasks + 1)

\* ------------------------------------------------ downloader (SpecDL)
InitDL ==
    /\ DownloaderAtBoot
    /\ RemoteAtBoot
    /\ queue = EmptyMap
    /\ next_id = 1
    /\ fs = [s \in Sides |-> EmptyMap]
    /\ file_index = [s \in Sides |-> EmptyMap]
    /\ WorkerAtBoot
    /\ FilterAtBoot
    /\ DedupeAtBoot
    /\ SourcesAtBoot
    /\ HandlersAtBoot

JobIds == 1..MaxJobs

NextDL ==
    \/ \E url \in Urls, start_now \in BOOLEAN : CreateJob(url, start_now)
    \/ \E j \in JobIds, force \in BOOLEAN : StartJob(j, force)
    \/ \E j \in JobIds : CancelJob(j)
    \/ CancelAllJobs
    \/ SchedulerStep
    \/ \E j \in JobIds : T_Loop(j)
    \/ \E j \in JobIds : T_Failed(j)
    \/ \E j \in JobIds : T_Stall(j)
    \/ \E j \in JobIds : T_Response(j)
    \/ \E j \in JobIds : T_Chunk(j)
    \/ \E j \in JobIds : T_EndOfStream(j)

SpecDL == InitDL /\ [][NextDL]_vars

\* ------------------------------------- downloader, no stalls (SpecCap)
\* The downloader on a network that never stalls: every attempt ends with a
\* response or a failure.
NextCap ==
    \/ \E url \in Urls, start_now \in BOOLEAN : CreateJob(url, start_now)
    \/ \E j \in JobIds, force \in BOOLEAN : StartJob(j, force)
    \/ \E j \in JobIds : CancelJob(j)
    \/ CancelAllJobs
    \/ SchedulerStep
    \/ \E j \in JobIds : T_Loop(j)
    \/ \E j \in JobIds : T_Failed(j)
    \/ \E j \in JobIds : T_Response(j)
    \/ \E j \in JobIds : T_Chunk(j)
    \/ \E j \in JobIds : T_EndOfStream(j)

SpecCap == InitDL /\ [][NextCap]_vars

\* ------------------------------------------- one download job (SpecJob)
\* The state after the first create_job of a process, for either URL and
\* either value of start_now; temp_path may hold bytes of an earlier process.
InitJob ==
    /\ \E url \in Urls, start_now \in BOOLEAN :
          /\ jobs = (1 :> [NewJob(1, url, UrlBasename(url), start_now)
                              EXCEPT !.status = "running"])
          /\ \E n \in 0..ServerChunks :
                part_files = IF n = 0 THEN EmptyMap ELSE (UrlBasename(url) :> n)
    /\ active = {1}
    /\ dl_next_id = 2
    /\ thr = (1 :> NewThread)
    /\ dest_files = EmptyMap
    /\ download_jobs = [j \in DOMAIN jobs |-> JobRow(jobs[j])]
    /\ RemoteAtBoot
    /\ queue = EmptyMap
    /\ next_id = 1
    /\ fs = [s \in Sides |-> EmptyMap]
    /\ file_index = [s \in Sides |-> EmptyMap]
    /\ WorkerAtBoot
    /\ FilterAtBoot
    /\ DedupeAtBoot
    /\ SourcesAtBoot
    /\ HandlersAtBoot

NextJob ==
    \/ CancelJob(1)
    \/ T_Loop(1)
    \/ T_Failed(1)
    \/ T_Stall(1)
    \/ T_Response(1)
    \/ T_Chunk(1)
    \/ T_EndOfStream(1)

SpecJob == InitJob /\ [][NextJob]_vars

\* ------------------------------------------- admission filter (SpecFilter)
Hosts ==
    { \* your.domain.example
      <<"y", "o", "u", "r", ".", "d", "o", "m", "a", "i", "n", ".", "e",
      "x", "a", "m", "p", "l", "e">>,
      \* YOUR.Domain.Example
      <<"Y", "O", "U", "R", ".", "D", "o", "m", "a", "i", "n", ".", "E",
      "x", "a", "m", "p", "l", "e">>,
      \* your.domain.example:443
      <<"y", "o", "u", "r", ".", "d", "o", "m", "a", "i", "n", ".", "e",
      "x", "a", "m", "p", "l", "e", ":", "4", "4", "3">>,
      \* localhost:8420
      <<"l", "o", "c", "a", "l", "h", "o", "s", "t", ":", "8", "4", "2",
      "0">>,
      \* 127.0.0.1:8420
      <<"1", "2", "7", ".", "0", ".", "0", ".", "1", ":", "8", "4", "2",
      "0">>,
      \* (no Host header)
      <<>>,
      \* your.domain.example.evil
      <<"y", "o", "u", "r", ".", "d", "o", "m", "a", "i", "n", ".", "e",
      "x", "a", "m", "p", "l", "e", ".", "e", "v", "i", "l">>,
      \* domain.example
      <<"d", "o", "m", "a", "i", "n", ".", "e", "x", "a", "m", "p", "l",
      "e">> }

Paths ==
    { \* /
      <<"/">>,
      \* /api/remote/x
      <<"/", "a", "p", "i", "/", "r", "e", "m", "o", "t", "e", "/", "x">>,
      \* /api/remote/
      <<"/", "a", "p", "i", "/", "r", "e", "m", "o", "t", "e", "/">>,
      \* /api/remote
      <<"/", "a", "p", "i", "/", "r", "e", "m", "o", "t", "e">>,
      \* /api/remotex
      <<"/", "a", "p", "i", "/", "r", "e", "m", "o", "t", "e", "x">>,
      \* /api/queue
      <<"/", "a", "p", "i", "/", "q", "u", "e", "u", "e">>,
      \* /API/remote/x
      <<"/", "A", "P", "I", "/", "r", "e", "m", "o", "t", "e", "/", "x">>,
      \* /remote
      <<"/", "r", "e", "m", "o", "t", "e">> }

InitFilter ==
    /\ http_req \in [host : Hosts, path : Paths]
    /\ http_resp = "none"
    /\ DedupeAtBoot
    /\ SourcesAtBoot
    /\ HandlersAtBoot
    /\ DownloaderAtBoot
    /\ RemoteAtBoot
    /\ queue = EmptyMap
    /\ next_id = 1
    /\ fs = [s \in Sides |-> EmptyMap]
    /\ file_index = [s \in Sides |-> EmptyMap]
    /\ WorkerAtBoot

NextFilter == FilterExternalTraffic

SpecFilter == InitFilter /\ [][NextFilter]_vars

\* ------------------------------------------------------ dedupe (SpecDedupe)
\* One root holds duplicates: local three copies of one content and a file
\* of its own, or lake two pairs of copies.  The index is the one a refresh
\* of both sides left in the store; nothing is hashed yet.
DedupeRoots ==
    { [local |-> ("p.bin" :> File(Ones, 1)) @@ ("q.bin" :> File(Ones, 2))
                  @@ ("d/r.bin" :> File(Ones, 3)) @@ ("z" :> File(<<3>>, 1)),
       lake |-> EmptyMap],
      [local |-> EmptyMap,
       lake |-> ("s" :> File(<<2>>, 1)) @@ ("d/s" :> File(<<2>>, 1))
                 @@ ("u" :> File(Ones, 1)) @@ ("v" :> File(Ones, 2))] }

InitDedupe ==
    /\ fs \in DedupeRoots
    /\ file_index = ScanSide(ScanSide([s \in Sides |-> EmptyMap], fs, "local"),
                             fs, "lake")
    /\ queue = EmptyMap
    /\ next_id = 1
    /\ WorkerAtBoot
    /\ FilterAtBoot
    /\ DedupeAtBoot
    /\ SourcesAtBoot
    /\ HandlersAtBoot
    /\ DownloaderAtBoot
    /\ RemoteAtBoot

ScanIds == 1..MaxScans

\* The selections a client may send for a scan: none, or one per group,
\* each naming any file of the scan.
SelectionSets(scan_id) ==
    LET gs == GetGroups(scan_id)
        rs == {f.relpath : f \in AllFiles(scan_id)}
    IN  {{}} \cup
        { {[group_id |-> g, keep_relpath |-> pick[g]] : g \in gs} :
            pick \in [gs -> rs] }

NextDedupe ==
    \/ \E side \in Sides : DedupeScan(side)
    \/ \E scan_id \in ScanIds :
          \E selections \in SelectionSets(scan_id) :
             DedupeExecute(scan_id, selections)

SpecDedupe == InitDedupe /\ [][NextDedupe]_vars

\* ------------------------------------------- sources and hashing (SpecSrc)
\* Both roots hold d/a; the index is the one a refresh of both sides left
\* in the store, nothing hashed; no source is recorded.
InitSrc ==
    /\ fs = FsBoth
    /\ file_index = ScanSide(ScanSide([s \in Sides |-> EmptyMap], FsBoth, "local"),
                             FsBoth, "lake")
    /\ queue = EmptyMap
    /\ next_id = 1
    /\ WorkerAtBoot
    /\ FilterAtBoot
    /\ DedupeAtBoot
    /\ SourcesAtBoot
    /\ HandlersAtBoot
    /\ DownloaderAtBoot
    /\ RemoteAtBoot

SourceUrls == {"u1", "u2"}

NextSrc ==
    \/ Startup
    \/ Tick
    \/ \E r \in Relpaths, url \in SourceUrls, queue_hash \in BOOLEAN :
          SetSourceUrlByRelpath(r, url, queue_hash)
    \/ \E r \in Relpaths : QueueHashFile(r)
    \/ WorkerSelect
    \/ WorkerMarkRunning
    \/ ExecNothing
    \/ WorkerComplete

SpecSrc == InitSrc /\ [][NextSrc]_vars

\* ------------------------------------------ enqueue and execute (SpecEnq)
\* The roots at process start: d/a on both sides, or one of InitFs.
EnqRoots == {FsBoth} \cup InitFs

InitEnq ==
    /\ fs \in EnqRoots
    /\ file_index = [s \in Sides |-> EmptyMap]
    /\ queue = EmptyMap
    /\ next_id = 1
    /\ WorkerAtBoot
    /\ FilterAtBoot
    /\ DedupeAtBoot
    /\ SourcesAtBoot
    /\ HandlersAtBoot
    /\ DownloaderAtBoot
    /\ RemoteAtBoot

\* The lists of sides a move request may carry.
SideSeqs == {<<>>, <<"local">>, <<"lake">>, <<"local", "lake">>, <<"lake", "lake">>}

NextEnq ==
    \/ Startup
    \/ \E sideSeq \in SideSeqs, sr \in Relpaths, dr \in Relpaths :
          EnqueueMove(sideSeq, sr, dr)
    \/ \E side \in Sides, r \in Relpaths, respect_policy \in BOOLEAN :
          EnqueueDelete(side, r, respect_policy)
    \/ WorkerSelect
    \/ WorkerMarkRunning
    \/ ExecDelete
    \/ ExecNothing
    \/ WorkerComplete

SpecEnq == InitEnq /\ [][NextEnq]_vars

\* ------------------------------------------------ remote broker (SpecR)
InitR ==
    /\ DownloaderAtBoot
    /\ RemoteAtBoot
    /\ queue = EmptyMap
    /\ next_id = 1
    /\ fs = [s \in Sides |-> EmptyMap]
    /\ file_index = [s \in Sides |-> EmptyMap]
    /\ WorkerAtBoot
    /\ FilterAtBoot
    /\ DedupeAtBoot
    /\ SourcesAtBoot
    /\ HandlersAtBoot

ItemM  == [relpath |-> "m", url |-> NULL]
ItemMU == [relpath |-> "m", url |-> "u"]
ItemU  == [relpath |-> NULL, url |-> "u"]
ItemNone == [relpath |-> NULL, url |-> NULL]

\* The "items" lists a UI request carries.
Incomings == {<<>>, <<ItemM>>, <<ItemNone, ItemM, ItemMU, ItemU>>}

Keys == 1..MaxKeys

RTaskIds == 1..MaxRTasks

NextR ==
    \/ RTick
    \/ EnableSession
    \/ EndSession
    \/ GetStatus
    \/ \E k \in Keys : AgentRegister(k)
    \/ EnqueueTask("CREATE_VENV", <<>>)
    \/ \E incoming \in Incomings : EnqueueTask("DOWNLOAD_URLS", incoming)
    \/ \E k \in Keys : PollStart(k)
    \/ PollWake
    \/ PollTimeout
    \/ \E k \in Keys, id \in RTaskIds, u \in Updates : UpdateProgress(k, id, u)
    \/ \E id \in RTaskIds : CancelRTask(id)

SpecR == InitR /\ [][NextR]_vars

\* ------------------------------- tasks of one remote session (SpecTasks)
\* The state after the first enable_session of a process; the session does
\* not end or expire.
InitTasks ==
    /\ api_key = 1
    /\ expires_at = SessionTTL
    /\ agent = NoAgent
    /\ r_tasks = <<>>
    /\ task_event = FALSE
    /\ keys_issued = 1
    /\ r_next_id = 1
    /\ r_now = 0
    /\ poll = NoPoll
    /\ DownloaderAtBoot
    /\ queue = EmptyMap
    /\ next_id = 1
    /\ fs = [s \in Sides |-> EmptyMap]
    /\ file_index = [s \in Sides |-> EmptyMap]
    /\ WorkerAtBoot
    /\ FilterAtBoot
    /\ DedupeAtBoot
    /\ SourcesAtBoot
    /\ HandlersAtBoot

NextTasks ==
    \/ EnqueueTask("CREATE_VENV", <<>>)
    \/ \E incoming \in Incomings : EnqueueTask("DOWNLOAD_URLS", incoming)
    \/ \E k \in Keys, id \in RTaskIds, u \in Updates : UpdateProgress(k, id, u)
    \/ \E id \in RTaskIds : CancelRTask(id)

SpecTasks == InitTasks /\ [][NextTasks]_vars

\* ------------------------------------- remote session keys (SpecKeys)
NextKeys ==
    \/ RTick
    \/ EnableSession
    \/ EndSession
    \/ GetStatus
    \/ \E k \in Keys : AgentRegister(k)
    \/ \E k \in Keys : PollStart(k)
    \/ PollTimeout

SpecKeys == InitR /\ [][NextKeys]_vars

\* =================================================================== claims
StatusOf(q, i) == IF i \in DOMAIN q THEN q[i].status ELSE "absent"

\* C1: once the startup reset has run, at most one queue row has
\* status = running, whatever enqueue, cancel, remove, pause/resume and
\* worker steps have happened.
C1_AtMostOneRunning == Up => Cardinality(Running(queue)) <= 1

\* A row is running while another one waits behind it.
C1_Witness ==
    /\ Up
    /\ \E i \in DOMAIN queue, j \in DOMAIN queue :
          /\ i # j
          /\ queue[i].status = "running"
          /\ queue[j].status = "pending"

\* C2 (as claimed): a row that is completed, failed or cancelled keeps that
\* status in every later step.
C2_TerminalIsFinal ==
    [][\A i \in DOMAIN queue :
          queue[i].status \in Terminal => StatusOf(queue', i) = queue[i].status]_vars

InExecution == w_pc \in {"copy_loop", "copy_final", "verify_loop", "complete"}

\* C3 (as claimed): once the row of the copy or verify task in execution is
\* cancelled, the worker copies no further chunk and verifies no further
\* file, and the row stays cancelled.
C3_CancelStopsTask ==
    [][(/\ InExecution
        /\ task.task_type \in {"copy", "verify"}
        /\ StatusOf(queue, task.id) = "cancelled")
       => (/\ bytes_copied' = bytes_copied
           /\ vi' = vi
           /\ StatusOf(queue', task.id) = "cancelled")]_vars

\* C4 (as claimed): while the queue is paused through the queue service the
\* worker takes no pending row.
C4_PausedTakesNothing ==
    [][svc_paused => ~(w_pc = "idle" /\ w_pc' = "mark")]_vars

\* C5: the row the worker selects is pending and has the smallest
\* created_at of the pending rows; while it waits to be marked running no
\* pending row is older.
C5_Fifo ==
    [][/\ (w_pc = "idle" /\ w_pc' = "mark") =>
             /\ task'.id \in Pending(queue)
             /\ \A j \in Pending(queue) : task'.created_at <= queue[j].created_at
       /\ w_pc = "mark" =>
             \A j \in Pending(queue) : task.created_at <= queue[j].created_at]_vars

\* The worker holds a selected row while a younger row is pending.
C5_Witness ==
    /\ w_pc = "mark"
    /\ \E j \in Pending(queue) : j # task.id /\ queue[j].created_at > task.created_at

\* The index of a side is what a scan of the side's root reports.
Scanned(side) ==
    /\ DOMAIN file_index[side] = DOMAIN fs[side]
    /\ \A r \in DOMAIN fs[side] :
          /\ file_index[side][r].size = Len(fs[side][r].data)
          /\ file_index[side][r].mtime_ns = fs[side][r].mtime

\* C6 (as claimed): a scan of a side whose index already is the result of a
\* scan of the same files leaves the same records and keeps every hash and
\* hash_computed_at.
C6_RescanKeepsHashes ==
    [][\A side \in Sides :
          (Scanned(side) /\ RefreshIndex(side)) =>
             /\ DOMAIN file_index'[side] = DOMAIN file_index[side]
             /\ \A r \in DOMAIN file_index[side] :
                   /\ file_index'[side][r].size = file_index[side][r].size
                   /\ file_index'[side][r].mtime_ns = file_index[side][r].mtime_ns
                   /\ file_index[side][r].hash # NoHash =>
                         /\ file_index'[side][r].hash = file_index[side][r].hash
                         /\ file_index'[side][r].hash_computed_at =
                               file_index[side][r].hash_computed_at]_vars

\* Both sides carry the same full hash for r and the diff says same.
SameOnBothSides(idx, r) ==
    /\ r \in DOMAIN idx["local"]
    /\ r \in DOMAIN idx["lake"]
    /\ idx["local"][r].hash = idx["lake"][r].hash
    /\ IsFullHash(idx["local"][r].hash)
    /\ DiffStatus(idx, r) = "same"

\* C7: when a copy between the two sides with the same relpath, whose
\* source is in the index, commits its index update, both sides have a
\* record for the relpath with the same full hash and the diff is same.
C7_CopyThenDiffSame ==
    [][(/\ w_pc = "copy_final"
        /\ w_pc' = "complete"
        /\ task.src_relpath = task.dst_relpath
        /\ task.src_relpath \in DOMAIN file_index[task.src_side])
       => SameOnBothSides(file_index', task.src_relpath)]_vars

\* A copy has just written the index and the diff reports same.
C7_Witness ==
    /\ w_pc = "complete"
    /\ task.task_type = "copy"
    /\ task.src_relpath = task.dst_relpath
    /\ SameOnBothSides(file_index, task.src_relpath)
    /\ Len(fs[task.dst_side][task.dst_relpath].data) = MaxChunks

\* ------------------------------------------------------------------ C8
\* C8: a download job that was cancelled can be started again (the sequence
\* cancel, start, cancel, start leads to completed, each start resuming at the
\* size of temp_path): start_job accepts every job that cancel_job has
\* cancelled and whose thread is not alive.
C8_CancelledJobRestarts ==
    \A j \in DOMAIN jobs :
        (jobs[j].cancelled /\ jobs[j].status = "cancelled" /\ j \notin active)
            => ~StartRefused(jobs, j)

\* ------------------------------------------------------------------ C9
\* C9 (as stated): at every moment the active set holds at most
\* max_concurrent jobs, whatever the interleaving of create_job, start_job
\* (with or without force), cancel_job and scheduler passes.
C9_ActiveWithinCap == Cardinality(active) <= MaxConcurrent

\* C9 (amended): at every moment at most max_concurrent of the jobs in the
\* active set were started without force (by the scheduler, by start_job with
\* force = False or by create_job with start_now = False).
C9_UnforcedWithinCap ==
    Cardinality({j \in active : ~jobs[j].force_start}) <= MaxConcurrent

\* A forced job runs beside a job that was admitted under the cap.
C9_Witness ==
    /\ Cardinality(active) > MaxConcurrent
    /\ \E j \in active : ~jobs[j].force_start
    /\ \E j \in active : jobs[j].force_start

\* ----------------------------------------------------------------- C10
\* C10: in every reachable state each job with status completed has its
\* dest_path present and its temp_path absent.
C10_CompletedHasDestOnly ==
    \A j \in DOMAIN jobs :
        jobs[j].status = "completed"
            => /\ jobs[j].filename \in DOMAIN dest_files
               /\ jobs[j].filename \notin DOMAIN part_files

\* ----------------------------------------------------------------- C11
\* C11: an attempt that ends with a read timeout or a connection error does
\* not fail the job: its status is unchanged (running unless cancelled
\* meanwhile), its thread stays alive, temp_path keeps its bytes; and every
\* attempt adds one to attempts and asks for the range that starts at the
\* size of temp_path.
C11_StallRetries ==
    [][\A j \in DOMAIN thr :
          /\ (thr[j].pc \in {"request", "stream"} /\ thr'[j].pc = "loop")
                => /\ jobs'[j].status = jobs[j].status
                   /\ jobs'[j].status # "failed"
                   /\ jobs'[j].attempts = jobs[j].attempts
                   /\ j \in active'
                   /\ part_files' = part_files
          /\ (thr[j].pc = "loop" /\ thr'[j].pc = "request")
                => /\ jobs'[j].status = "running"
                   /\ jobs'[j].attempts = jobs[j].attempts + 1
                   /\ thr'[j].existing_size =
                         IF jobs[j].filename \in DOMAIN part_files
                         THEN part_files[jobs[j].filename] ELSE 0
                   /\ part_files' = part_files]_vars

\* A second attempt, after a stall in mid-transfer, resumes inside the file.
C11_Witness ==
    \E j \in DOMAIN thr :
        /\ jobs[j].attempts = 2
        /\ jobs[j].status = "running"
        /\ thr[j].pc = "stream"
        /\ jobs[j].bytes_downloaded > 0
        /\ jobs[j].bytes_downloaded + thr[j].remaining = ServerChunks
        /\ thr[j].remaining > 0

\* ----------------------------------------------------------------- C12
\* The incoming items that are new: those with a key that no pending or
\* running DOWNLOAD_URLS task holds and no earlier incoming item has.
NewPositions(incoming, tasks) ==
    {n \in DOMAIN incoming :
        /\ ItemKey(incoming[n]) # NoKey
        /\ ItemKey(incoming[n]) \notin ExistingKeys(tasks)
        /\ \A m \in 1..(n - 1) : ItemKey(incoming[m]) # ItemKey(incoming[n])}

NewOf(incoming, tasks) ==
    LET S == NewPositions(incoming, tasks)
    IN  [i \in 1..Cardinality(S) |->
            incoming[CHOOSE n \in S : Cardinality({m \in S : m <= n}) = i]]

HasActiveDownload(tasks) ==
    DownloadTasks(tasks, "pending") \cup DownloadTasks(tasks, "running") # {}

\* What the claim says of the cases with a new item.
DecisionWithNew(incoming) ==
    LET news == NewOf(incoming, r_tasks)
        pend == DownloadTasks(r_tasks, "pending")
    IN  IF pend # {}
        THEN /\ Len(r_tasks') = Len(r_tasks)
             /\ \A i \in DOMAIN r_tasks :
                   IF i = Last(pend)
                   THEN /\ r_tasks'[i].items = r_tasks[i].items \o news
                        /\ r_tasks'[i].id = r_tasks[i].id
                        /\ r_tasks'[i].status = "pending"
                   ELSE r_tasks'[i] = r_tasks[i]
             /\ r_next_id' = r_next_id
        ELSE r_tasks' = Append(r_tasks, NewRTask(r_next_id, "DOWNLOAD_URLS", news))

\* C12 (as stated): on enqueueing DOWNLOAD_URLS, if there is no new item no
\* task is created or changed; else the new items are appended to the pending
\* DOWNLOAD_URLS task if there is one, and otherwise one new pending task
\* holding only the new items is created.
C12_MergeDecision ==
    [][\A incoming \in Incomings :
          (Active /\ EnqueueTask("DOWNLOAD_URLS", incoming))
              => IF NewOf(incoming, r_tasks) = <<>>
                 THEN r_tasks' = r_tasks
                 ELSE DecisionWithNew(incoming)]_vars

\* C12 (amended): as above, except that with no new item and no pending or
\* running DOWNLOAD_URLS task one task with an empty item list is created.
C12_MergeDecisionAmended ==
    [][\A incoming \in Incomings :
          (Active /\ EnqueueTask("DOWNLOAD_URLS", incoming))
              => IF NewOf(incoming, r_tasks) = <<>>
                 THEN IF HasActiveDownload(r_tasks)
                      THEN r_tasks' = r_tasks
                      ELSE r_tasks' = Append(r_tasks,
                               NewRTask(r_next_id, "DOWNLOAD_URLS", <<>>))
                 ELSE DecisionWithNew(incoming)]_vars

\* A pending DOWNLOAD_URLS task that received the new items of a later
\* request, beside a running one.
C12_Witness ==
    \E i, k \in DOMAIN r_tasks :
        /\ r_tasks[i].type = "DOWNLOAD_URLS" /\ r_tasks[i].status = "running"
        /\ r_tasks[k].type = "DOWNLOAD_URLS" /\ r_tasks[k].status = "pending"
        /\ r_tasks[k].message = "Queued"

\* ----------------------------------------------------------------- C13
\* C13: a next_task poll that began with no pending task, and during which no
\* task was created, returns nothing only through its 20-second timeout,
\* whatever happened before the poll.
C13_EmptyPollWaitsTimeout ==
    [][(/\ poll.pc = "waiting"
        /\ poll'.pc = "idle"
        /\ poll'.task = 0
        /\ poll.since = r_next_id)
          => poll'.by = "timeout"]_vars

\* ----------------------------------------------------------------- C14
\* C14: once a task is cancelled, a progress update whose status is not
\* cancelled changes nothing of the task list, and no step of the session
\* takes the task out of status cancelled.
C14_CancelledStaysCancelled ==
    [][/\ \A k \in Keys, id \in RTaskIds, u \in Updates :
             (/\ UpdateProgress(k, id, u)
              /\ u.status # "cancelled"
              /\ RIndex(r_tasks, id) # 0
              /\ r_tasks[RIndex(r_tasks, id)].status = "cancelled")
                 => r_tasks' = r_tasks
       /\ \A i \in DOMAIN r_tasks :
             (/\ r_tasks[i].status = "cancelled"
              /\ i \in DOMAIN r_tasks'
              /\ r_tasks'[i].id = r_tasks[i].id)
                 => r_tasks'[i].status = "cancelled"]_vars

\* A running task that cancel_task has cancelled.
C14_Witness ==
    \E i \in DOMAIN r_tasks :
        /\ r_tasks[i].status = "cancelled"
        /\ r_tasks[i].message = "Cancelled by user."

\* ----------------------------------------------------------------- C15
\* C15: after enable_session the session has a new key, expires_at = now +
\* TTL, an empty task list, and agent info and last heartbeat reset, whatever
\* the state before.
C15_EnableStartsClean ==
    [][keys_issued' = keys_issued + 1
          => /\ api_key' # 0
             /\ api_key' # api_key
             /\ expires_at' = r_now + SessionTTL
             /\ r_tasks' = <<>>
             /\ agent' = NoAgent]_vars

\* ----------------------------------------------------------------- C16
\* C16: after end_session, and at any time after expires_at has passed, the
\* broker holds no session state: listing the tasks returns an empty list.
C16_NoTasksWithoutSession == ~Active => GetTasks = <<>>

\* ----------------------------------------------------------------- C17
\* C17: validate_key(k) is true only if a session is active and k is its
\* key: k is then the key issued last, end_session has not cleared it and now
\* is not after expires_at.
C17_OnlyCurrentKey ==
    \A k \in Keys :
        ValidateKey(k)
            => /\ k = keys_issued
               /\ k = api_key
               /\ expires_at # NoTime
               /\ r_now <= expires_at

\* The agent of the second session is registered; the first key is refused.
C17_Witness ==
    /\ keys_issued = 2
    /\ ValidateKey(2)
    /\ ~ValidateKey(1)
    /\ agent.connected

\* ---------------------------------------------------------------- C18
\* The request came in on the external host: the hostname of its Host
\* header, port dropped and case ignored, is that of remote_base_url.
OnExternalHost ==
    Lower(BeforeFirst(http_req.host, <<":">>)) = Lower(Hostname(remote_base_url))

\* The path is /api/remote itself or lies under /api/remote/.
UnderApiRemote ==
    \/ http_req.path = RemotePrefix
    \/ StartsWith(http_req.path, RemotePrefix \o <<"/">>)

\* C18: a request on the external host is answered 403 unless its path is
\* under /api/remote/, and a request with any other Host is passed on to the
\* application whatever its path.
C18_ExternalOnlyRemote ==
    http_resp # "none"
        => http_resp = IF OnExternalHost /\ ~UnderApiRemote THEN "403"
                       ELSE "call_next"

\* ---------------------------------------------------------------- C19
\* The selections name, for every group of the scan and for no other group,
\* one file of that group.
OnePerGroup(scan_id, selections) ==
    /\ {sel.group_id : sel \in selections} = GetGroups(scan_id)
    /\ \A a, b \in selections : a.group_id = b.group_id => a = b
    /\ \A sel \in selections :
          \E f \in GroupFiles(sel.group_id) :
             dedupe_files[f].relpath = sel.keep_relpath

\* The dedupe_files rows of the scan that are not the one kept for their group.
NotTheKept(scan_id, selections) ==
    {f \in DOMAIN dedupe_files :
        /\ dedupe_files[f].group_id \in GetGroups(scan_id)
        /\ \A sel \in selections :
              sel.group_id = dedupe_files[f].group_id
                 => sel.keep_relpath # dedupe_files[f].relpath}

SideOf(f) == dedupe_groups[dedupe_files[f].group_id].side

\* C19: execute, given a scan_id and one kept relpath per group, removes from
\* the roots exactly the files of the scan's groups that are not the one kept
\* for their group, whatever the side's allow-delete flag; deleted is the
\* number of files removed and freed_bytes the sum of their recorded sizes.
C19_ExecuteDeletesNotKept ==
    [][\A scan_id \in ScanIds : \A selections \in SelectionSets(scan_id) :
          (DedupeExecute(scan_id, selections) /\ OnePerGroup(scan_id, selections))
             => LET removed == {f \in NotTheKept(scan_id, selections) :
                                   dedupe_files[f].relpath \in DOMAIN fs[SideOf(f)]}
                IN  /\ \A sd \in Sides :
                          /\ DOMAIN fs'[sd] = DOMAIN fs[sd] \
                                {dedupe_files[f].relpath :
                                    f \in {x \in removed : SideOf(x) = sd}}
                          /\ \A r \in DOMAIN fs'[sd] : fs'[sd][r] = fs[sd][r]
                    /\ dedupe_result'.deleted = Cardinality(removed)
                    /\ dedupe_result'.freed_bytes
                          = SumSize({dedupe_files[f] : f \in removed})]_vars

\* p.bin was kept on the side that does not allow deletes: q.bin and d/r.bin
\* are gone, two files and twice their size are reported.
C19_Witness ==
    /\ ~AllowDelete["local"]
    /\ dedupe_result.selections = {[group_id |-> 1, keep_relpath |-> "p.bin"]}
    /\ dedupe_result.deleted = 2
    /\ dedupe_result.freed_bytes = 2 * Len(Ones)
    /\ DOMAIN fs["local"] = {"p.bin", "z"}

\* ---------------------------------------------------------------- C20
\* C20: when the worker completes a hash_file task for a relpath that has a
\* source recorded under its relpath key (and a file in a root), then the
\* file's index row has a hash, a source keyed by that hash carries the URL
\* of the former entry, and the relpath-keyed entry is gone.
C20_HashFileMigratesSource ==
    [][(/\ w_pc = "complete"
        /\ task.task_type = "hash_file"
        /\ queue'[task.id].status = "completed"
        /\ RelpathKey(task.src_relpath) \in DOMAIN source_urls
        /\ \E sd \in Sides : task.src_relpath \in DOMAIN fs[sd])
          => /\ RelpathKey(task.src_relpath) \notin DOMAIN source_urls'
             /\ \E sd \in Sides :
                   /\ task.src_relpath \in DOMAIN file_index'[sd]
                   /\ file_index'[sd][task.src_relpath].hash # NoHash
                   /\ file_index'[sd][task.src_relpath].hash \in DOMAIN source_urls'
                   /\ source_urls'[file_index'[sd][task.src_relpath].hash].url
                         = source_urls[RelpathKey(task.src_relpath)].url]_vars

\* ---------------------------------------------------------------- C21
\* ---------------------------------------------------- coalesced enqueues
InitCoal ==
    /\ fs = FsBoth
    /\ file_index = [s \in Sides |-> EmptyMap]
    /\ queue = EmptyMap
    /\ next_id = 1
    /\ WorkerAtBoot
    /\ FilterAtBoot
    /\ DedupeAtBoot
    /\ SourcesAtBoot
    /\ HandlersAtBoot
    /\ DownloaderAtBoot
    /\ RemoteAtBoot

\* What a verify request names: one relpath, or a folder ("" = everything).
VerifyTargets ==
    {<<r, NULL>> : r \in Relpaths} \cup {<<NULL, f>> : f \in {"", "d"}}

NextCoal ==
    \/ Startup
    \/ \E h \in Handlers, t \in VerifyTargets : VerifyCheck(h, t[1], t[2])
    \/ \E h \in Handlers, r \in Relpaths : HashCheck(h, r)
    \/ \E h \in Handlers : InsertChecked(h)
    \/ WorkerSelect
    \/ WorkerMarkRunning

SpecCoal == InitCoal /\ [][NextCoal]_vars


\* -------------------------------------------------- every index writer
HashModes == {"fast", "full"}

InitHashes ==
    /\ fs = [local |-> ("d/a" :> File(Ones, 1)),
             lake  |-> ("d/a" :> File(Ones, 2)) @@ ("b" :> File(<<2>>, 1))]
    /\ file_index = [s \in Sides |-> EmptyMap]
    /\ queue = EmptyMap
    /\ next_id = 1
    /\ WorkerAtBoot
    /\ FilterAtBoot
    /\ DedupeAtBoot
    /\ SourcesAtBoot
    /\ HandlersAtBoot
    /\ DownloaderAtBoot
    /\ RemoteAtBoot

NextHashes ==
    \/ Startup
    \/ EnqueueCopy("local", "d/a", "lake", "b")
    \/ EnqueueDelete("lake", "d/a", TRUE)
    \/ EnqueueVerifyFolder("")
    \/ \E side \in Sides : RefreshIndex(side)
    \/ \E side \in Sides, r \in Relpaths, force \in BOOLEAN, mode \in HashModes :
          GetHash(side, r, force, mode)
    \/ RecordSourceUrl("d/a", "u1")
    \/ WorkerSelect
    \/ WorkerMarkRunning
    \/ CopyOpen
    \/ CopyChunk
    \/ CopyFinal
    \/ ExecDelete
    \/ ExecNothing
    \/ VerifyFetch
    \/ VerifyStep
    \/ WorkerComplete

SpecHashes == InitHashes /\ [][NextHashes]_vars


\* ------------------------------------------ the worker loop under fairness
InitLive ==
    /\ fs = FsBoth
    /\ file_index = [s \in Sides |-> EmptyMap]
    /\ queue = EmptyMap
    /\ next_id = 1
    /\ WorkerAtBoot
    /\ FilterAtBoot
    /\ DedupeAtBoot
    /\ SourcesAtBoot
    /\ HandlersAtBoot
    /\ DownloaderAtBoot
    /\ RemoteAtBoot

\* A copy whose source exists and one whose source does not.
LiveCopies == {<<"local", "d/a", "lake", "b">>, <<"local", "b", "lake", "b">>}

\* The steps of _worker_loop and of the task it runs.
LiveWorker ==
    \/ WorkerSelect
    \/ WorkerMarkRunning
    \/ CopyOpen
    \/ CopyChunk
    \/ CopyFinal
    \/ ExecDelete
    \/ ExecNothing
    \/ WorkerComplete
    \/ WorkerFail

NextLive ==
    \/ Startup
    \/ \E c \in LiveCopies : EnqueueCopy(c[1], c[2], c[3], c[4])
    \/ EnqueueDelete("lake", "d/a", TRUE)
    \/ EnqueueMove(<<"lake">>, "d/a", "b")
    \/ LiveWorker

\* lifespan runs to its yield, and the loop task created by start() goes on
\* as long as _running holds: it is never blocked for ever by a request.
SpecLive ==
    InitLive /\ [][NextLive]_vars /\ WF_vars(Startup) /\ WF_vars(LiveWorker)


\* C21: every move task the worker marks completed has moved the file: on
\* the task's side the source relpath is gone and the destination relpath
\* holds the content the source had.
C21_CompletedMoveMoved ==
    [][(/\ w_pc = "complete"
        /\ task.task_type = "move"
        /\ StatusOf(queue', task.id) = "completed")
          => /\ task.src_relpath \notin DOMAIN fs'[task.src_side]
             /\ task.dst_relpath \in DOMAIN fs'[task.dst_side]
             /\ task.src_relpath \in DOMAIN fs[task.src_side]
                   => fs'[task.dst_side][task.dst_relpath].data
                         = fs[task.src_side][task.src_relpath].data]_vars

\* ---------------------------------------------------------------- C22
\* A row is a pending move of sr to dr on one side.
IsMoveRow(row, side, sr, dr) ==
    /\ row.task_type = "move"
    /\ row.status = "pending"
    /\ row.src_side = side /\ row.dst_side = side
    /\ row.src_relpath = sr /\ row.dst_relpath = dr

\* C22: enqueue_move over a list of sides is all-or-nothing: if the
\* preflight fails for any side (source missing, destination there, or the
\* two paths equal) it raises and the queue is as before; otherwise exactly
\* one pending move row is inserted per distinct side.
C22_MoveAllOrNothing ==
    \A sideSeq \in SideSeqs \ {<<>>}, sr \in Relpaths, dr \in Relpaths :
        LET res == EnqueueMoveBatch(queue, next_id, sideSeq, sr, dr, clock)
            distinct == {sideSeq[k] : k \in DOMAIN sideSeq}
            added == DOMAIN res.queue \ DOMAIN queue
        IN  IF \E side \in distinct :
                  \/ sr \notin DOMAIN fs[side]
                  \/ dr \in DOMAIN fs[side]
                  \/ sr = dr
            THEN res.raised /\ res.queue = queue
            ELSE /\ ~res.raised
                 /\ \A i \in DOMAIN queue : i \in DOMAIN res.queue /\ res.queue[i] = queue[i]
                 /\ Cardinality(added) = Cardinality(distinct)
                 /\ \A side \in distinct :
                       \E i \in added : IsMoveRow(res.queue[i], side, sr, dr)

\* One request has put a move of d/a to b in the queue for both sides.
C22_Witness ==
    /\ 1 \in DOMAIN queue /\ 2 \in DOMAIN queue
    /\ IsMoveRow(queue[1], "local", "d/a", "b")
    /\ IsMoveRow(queue[2], "lake", "d/a", "b")

\* ---------------------------------------------------------------- C23
\* C23: enqueue_delete with respect_policy on a side whose allow-delete flag
\* is off raises and leaves the queue as it was; with respect_policy off, or
\* the flag on, it inserts exactly one pending delete row.
C23_DeletePolicy ==
    \A side \in Sides, r \in Relpaths, respect_policy \in BOOLEAN :
        LET res == EnqueueDeleteResult(queue, next_id, side, r, respect_policy, clock)
            added == DOMAIN res.queue \ DOMAIN queue
        IN  IF respect_policy /\ ~AllowDelete[side]
            THEN res.raised /\ res.queue = queue
            ELSE /\ ~res.raised
                 /\ \A i \in DOMAIN queue : i \in DOMAIN res.queue /\ res.queue[i] = queue[i]
                 /\ Cardinality(added) = 1
                 /\ \A i \in added :
                       /\ res.queue[i].task_type = "delete"
                       /\ res.queue[i].status = "pending"
                       /\ res.queue[i].dst_side = side
                       /\ res.queue[i].dst_relpath = r

\* A delete row for the side that does not allow deletes is in the queue:
\* the request did not ask for the policy.
C23_Witness ==
    \E i \in DOMAIN queue :
        /\ queue[i].task_type = "delete"
        /\ queue[i].dst_side = "local"
        /\ ~AllowDelete["local"]

\* ---------------------------------------------------------------- C24
\* C24: a delete task whose target file does not exist is processed without
\* error: the executor changes nothing on the filesystem and returns, the
\* worker marks the row completed and publishes task_complete with status
\* completed.
C24_DeleteMissingCompletes ==
    [][/\ (/\ w_pc = "dispatch" /\ w_pc' # w_pc
           /\ task.task_type = "delete"
           /\ task.dst_relpath \notin DOMAIN fs[task.dst_side])
             => fs' = fs /\ w_pc' = "complete"
       /\ (/\ w_pc = "complete" /\ w_pc' # w_pc
           /\ task.task_type = "delete")
             => /\ fs' = fs
                /\ StatusOf(queue', task.id) = "completed"
                /\ events' = <<Event("task_started", NULL),
                               Event("task_complete", "completed")>>]_vars

\* The only task, a delete of local b, which never existed, is completed.
C24_Witness ==
    /\ DOMAIN queue = {1}
    /\ queue[1].task_type = "delete"
    /\ queue[1].dst_side = "local" /\ queue[1].dst_relpath = "b"
    /\ "b" \notin DOMAIN fs["local"]
    /\ queue[1].status = "completed"
    /\ events = <<Event("task_started", NULL), Event("task_complete", "completed")>>

\* C25: at any time at most one verify row per target (one relpath or one
\* folder) and at most one hash_file row per relpath is pending or running,
\* also when the requests of different handlers interleave.
C25_Coalesced ==
    \A i, k \in DOMAIN queue :
        (/\ i # k
         /\ queue[i].status \in {"pending", "running"}
         /\ queue[k].status \in {"pending", "running"}
         /\ queue[i].task_type = queue[k].task_type
         /\ queue[i].task_type \in {"verify", "hash_file"})
            => \/ queue[i].src_relpath # queue[k].src_relpath
               \/ queue[i].verify_folder # queue[k].verify_folder


\* C26: in every reachable state of the file index, whatever scans, copy
\* tasks, verify tasks, hasher calls and download records came before, each
\* row has a hash iff it has hash_computed_at.
C26_HashIffComputedAt ==
    \A side \in Sides : \A r \in DOMAIN file_index[side] :
        file_index[side][r].hash = NoHash
            <=> file_index[side][r].hash_computed_at = NoTime

\* A hashed row next to an unhashed one, the hashed one written after boot.
C26_Witness ==
    /\ "d/a" \in DOMAIN file_index["local"]
    /\ file_index["local"]["d/a"].hash # NoHash
    /\ file_index["local"]["d/a"].hash_computed_at # NoTime
    /\ \E r \in DOMAIN file_index["lake"] : file_index["lake"][r].hash = NoHash


\* C27: when startup has finished no row is running; every row that was
\* running when the previous process stopped is pending again with started_at
\* cleared and bytes_transferred 0, the worker's SELECT finds it, and no other
\* row has changed.
C27_StartupResetsOrphans ==
    [][(w_pc = "boot" /\ w_pc' # "boot")
          => /\ Running(queue') = {}
             /\ DOMAIN queue' = DOMAIN queue
             /\ \A i \in DOMAIN queue :
                   IF queue[i].status = "running"
                   THEN /\ queue'[i].status = "pending"
                        /\ queue'[i].started_at = NoTime
                        /\ queue'[i].bytes_transferred = 0
                        /\ i \in Pending(queue')
                        /\ NextTaskChoices(queue') # {}
                   ELSE queue'[i] = queue[i]]_vars

\* Startup is over and the row the previous process left running waits.
C27_Witness ==
    /\ w_pc = "idle"
    /\ w_running
    /\ DOMAIN queue = {1}
    /\ queue[1] = [OrphanRow EXCEPT !.status = "pending", !.started_at = NoTime,
                                    !.bytes_transferred = 0]


\* C28 (as claimed): for every copy task the worker completes, whatever the
\* size of the source file, the events published for it are one task_started,
\* then at least one queue_progress, then one task_complete.
C28_CopyEventOrder ==
    [][(/\ w_pc = "complete"
        /\ w_pc' # w_pc
        /\ task.task_type = "copy"
        /\ StatusOf(queue', task.id) = "completed")
          => /\ Len(events') >= 3
             /\ events'[1] = Event("task_started", NULL)
             /\ events'[Len(events')] = Event("task_complete", "completed")
             /\ \A k \in 2..(Len(events') - 1) :
                   events'[k] = Event("queue_progress", NULL)]_vars


\* C29 (as claimed): a download job cancelled while its chunk loop runs ends
\* cancelled and not completed (an exception apart), its temp_path is still
\* there and no file has been created at dest_path.
C29_CancelStopsDownload ==
    [][\A j \in DOMAIN thr :
          (/\ thr[j].pc = "stream"
           /\ jobs[j].cancelled
           /\ thr'[j].pc = "done"
           /\ jobs'[j].status # "failed")
             => /\ jobs'[j].status = "cancelled"
                /\ jobs'[j].filename \in DOMAIN part_files'
                /\ jobs'[j].filename \notin DOMAIN dest_files']_vars


\* C30: a task whose execution raises ends failed with the message stored
\* and retry_count one higher, task_complete with status failed is published
\* and the worker loop goes on; with the worker started and not paused, every
\* pending row is eventually marked running.
C30_FailureDoesNotStopWorker ==
    /\ [][(w_pc = "fail" /\ w_pc' # w_pc)
            => /\ StatusOf(queue', task.id) = "failed"
               /\ queue'[task.id].error_message = "Source file not found"
               /\ queue'[task.id].retry_count = queue[task.id].retry_count + 1
               /\ events' = Append(events, Event("task_complete", "failed"))
               /\ w_running'
               /\ w_pc' = "idle"]_vars
    /\ \A i \in 1..MaxTasks :
          (/\ w_running
           /\ ~w_paused
           /\ i \in DOMAIN queue
           /\ queue[i].status = "pending")
             ~> (i \in DOMAIN queue /\ queue[i].status = "running")

\* A task has failed and the row enqueued after it is running.
C30_Witness ==
    /\ DOMAIN queue = {1, 2}
    /\ queue[1].status = "failed"
    /\ queue[1].error_message = "Source file not found"
    /\ queue[1].retry_count = 1
    /\ queue[2].status = "running"
    /\ w_running


\* C31 (as claimed): a task enqueued while a next_task long-poll is waiting
\* (none was pending when the poll began) is returned by that poll, which
\* does not run into its timeout.
C31_EnqueueWakesPoll ==
    [][(/\ poll.pc = "waiting"
        /\ poll'.pc = "idle"
        /\ \E i \in DOMAIN r_tasks : /\ r_tasks[i].id >= poll.since
                                     /\ r_tasks[i].status = "pending")
          => /\ poll'.by = "event"
             /\ \E i \in DOMAIN r_tasks : /\ r_tasks[i].id = poll'.task
                                          /\ r_tasks[i].id >= poll.since
                                          /\ r_tasks[i].status = "pending"]_vars


\* The (task, position) pairs of the items of all pending and running
\* DOWNLOAD_URLS tasks.
ActiveItems ==
    UNION {{<<i, n>> : n \in DOMAIN r_tasks[i].items} :
              i \in DownloadTasks(r_tasks, "pending")
                       \cup DownloadTasks(r_tasks, "running")}

\* C32 (as claimed): whatever enqueue_task, cancel_task and progress updates
\* came before, no item key occurs more than once among the items of all
\* pending and running DOWNLOAD_URLS tasks taken together.
C32_ActiveKeysUnique ==
    \A a \in ActiveItems, b \in ActiveItems :
        (/\ a # b
         /\ ItemKey(r_tasks[a[1]].items[a[2]]) # NoKey)
            => ItemKey(r_tasks[a[1]].items[a[2]]) # ItemKey(r_tasks[b[1]].items[b[2]])


\* C33 (as claimed): a row cancelled or removed after the worker selected it
\* and before the worker marks it running is not dispatched to an executor,
\* and no step sets a cancelled row back to running.
C33_ExecutesOnlyPending ==
    [][/\ (/\ w_pc = "mark"
           /\ w_pc' # w_pc
           /\ StatusOf(queue, task.id) # "pending")
             => w_pc' # "dispatch"
       /\ \A i \in DOMAIN queue :
             queue[i].status = "cancelled" => StatusOf(queue', i) # "running"]_vars


\* C34 (as claimed): whatever the selection list (also one naming no kept
\* file for some group), after execute at least one file of each duplicate
\* group of the scan that had a file on disk still has one.
C34_ExecuteKeepsOneCopy ==
    [][\A scan_id \in ScanIds : \A selections \in SelectionSets(scan_id) :
          DedupeExecute(scan_id, selections)
             => \A g \in GetGroups(scan_id) :
                   (\E f \in GroupFiles(g) :
                       dedupe_files[f].relpath \in DOMAIN fs[dedupe_groups[g].side])
                      => \E f \in GroupFiles(g) :
                            dedupe_files[f].relpath
                               \in DOMAIN fs'[dedupe_groups[g].side]]_vars


\* ------------------------- download_jobs across restarts (SpecStore)
\* load_persisted_jobs, its UPDATE: the rows left running are queued again.
RequeueRunning(store) ==
    [id \in DOMAIN store |->
        IF store[id].status = "running" THEN [store[id] EXCEPT !.status = "queued"]
        ELSE store[id]]

\* The ids of SELECT * FROM download_jobs WHERE status IN ('queued', 'running')
LoadedRows(store) ==
    {id \in DOMAIN store : store[id].status \in {"queued", "running"}}

\* max_id over the selected rows, 0 if there is none.
MaxId(S) == IF S = {} THEN 0 ELSE CHOOSE m \in S : \A x \in S : x <= m

\* The process ends and is started again: DownloadManager.__init__, then
\* load_persisted_jobs from the lifespan.  Every row's dest_path still lies
\* under the downloads directory; bytes_downloaded is the size of temp_path.
LoadPersistedJobs ==
    LET store  == RequeueRunning(download_jobs)
        rows   == LoadedRows(store)
        max_id == MaxId(rows)
    IN  /\ download_jobs' = store
        /\ jobs' = [id \in rows |->
                      [NewJob(id, store[id].url, store[id].filename, FALSE)
                          EXCEPT !.attempts = store[id].attempts,
                                 !.bytes_downloaded =
                                     RangeStart(part_files, store[id].filename)]]
        /\ active' = {}
        /\ thr' = EmptyMap
        /\ dl_next_id' = IF max_id >= 1 THEN max_id + 1 ELSE 1
        /\ UNCHANGED dlFiles
        /\ UNCHANGED nonD

NextStore ==
    \/ \E url \in Urls, start_now \in BOOLEAN : CreateJob(url, start_now)
    \/ \E j \in JobIds : CancelJob(j)
    \/ SchedulerStep
    \/ \E j \in JobIds : T_Loop(j)
    \/ \E j \in JobIds : T_Response(j)
    \/ \E j \in JobIds : T_Chunk(j)
    \/ \E j \in JobIds : T_EndOfStream(j)
    \/ LoadPersistedJobs

SpecStore == InitDL /\ [][NextStore]_vars

\* C35 (as claimed): a job id is never used twice over the life of the
\* store: create_job never takes an id that a row of download_jobs already
\* has, and persisting a job never replaces the row of another job, whether
\* that job ran in this process or in an earlier one.
C35_JobIdsUnique ==
    [][(\E url \in Urls, start_now \in BOOLEAN : CreateJob(url, start_now))
          => /\ dl_next_id \notin DOMAIN download_jobs
             /\ \A id \in DOMAIN download_jobs :
                   download_jobs'[id] = download_jobs[id]]_vars

\* C36 (as claimed): a download job that is completed or failed keeps its
\* status through cancel_job and cancel_all; no step turns it into a
\* cancelled job.
C36_TerminalStaysTerminal ==
    [][\A j \in DOMAIN jobs :
          jobs[j].status \in {"completed", "failed"}
             => jobs'[j].status = jobs[j].status]_vars

\* --------------------- enqueue_task against the agent's loop (SpecAgent)
\* One session with its agent: GET /tasks/next, then the progress updates
\* of the task it returned, while the UI enqueues DOWNLOAD_URLS items.
NextAgent ==
    \/ \E incoming \in Incomings : EnqueueTask("DOWNLOAD_URLS", incoming)
    \/ \E k \in Keys : PollStart(k)
    \/ PollWake
    \/ PollTimeout
    \/ \E k \in Keys, id \in RTaskIds, u \in Updates : UpdateProgress(k, id, u)

SpecAgent == InitTasks /\ [][NextAgent]_vars

\* C37 (as claimed): no accepted DOWNLOAD_URLS item is lost: the items of a
\* task are those that the next_task call delivering it returned, so once
\* next_task has answered with a task, no step adds an item to that task.
C37_NoItemAfterFetch ==
    [][\A i \in DOMAIN r_tasks :
          (/\ poll.pc = "idle"
           /\ poll.task # 0
           /\ r_tasks[i].id = poll.task
           /\ i \in DOMAIN r_tasks')
             => r_tasks'[i].items = r_tasks[i].items]_vars

\* ------------------- requests from the tunnel without a bearer (SpecExt)
\* get_status, as the body the endpoint answers with (0: api_key is None).
StatusBody ==
    [is_active |-> Active,
     api_key |-> IF Active THEN api_key ELSE 0,
     agent_connected |-> agent.connected,
     tasks_count |-> Len(r_tasks)]

\* The routes of the application that the requests below ask for: path,
\* whether the route depends on verify_remote_auth, and its handler.
Routes ==
    { [path |-> RemotePrefix \o <<"/", "s", "t", "a", "t", "u", "s">>,
       auth |-> FALSE, handler |-> "get_status"],
      [path |-> RemotePrefix \o <<"/", "s", "e", "s", "s", "i", "o", "n", "/", "e", "n", "a", "b", "l", "e">>,
       auth |-> FALSE, handler |-> "enable_session"],
      [path |-> RemotePrefix \o <<"/", "s", "e", "s", "s", "i", "o", "n", "/", "e", "n", "d">>,
       auth |-> FALSE, handler |-> "end_session"],
      [path |-> RemotePrefix \o <<"/", "t", "a", "s", "k", "s">>,
       auth |-> FALSE, handler |-> "list_tasks"],
      [path |-> RemotePrefix \o <<"/", "t", "a", "s", "k", "s", "/", "e", "n", "q", "u", "e", "u", "e">>,
       auth |-> FALSE, handler |-> "enqueue_task"],
      [path |-> RemotePrefix \o <<"/", "t", "a", "s", "k", "s", "/", "n", "e", "x", "t">>,
       auth |-> TRUE, handler |-> "get_next_task"],
      [path |-> <<"/", "a", "p", "i", "/", "q", "u", "e", "u", "e">>,
       auth |-> FALSE, handler |-> "list_queue"] }

\* The handler of a route that needs no bearer, as a step.
Handler(name) ==
    CASE name = "get_status" -> GetStatus
      [] name = "enable_session" -> EnableSession
      [] name = "end_session" -> EndSession
      [] name = "list_tasks" -> GetTasks = r_tasks /\ UNCHANGED vars
      [] name = "enqueue_task" ->
            \E incoming \in Incomings : EnqueueTask("DOWNLOAD_URLS", incoming)
      [] OTHER -> FALSE

\* A request with the Host header of remote_base_url and no Authorization
\* header: the middleware, then verify_remote_auth where the route depends
\* on it (401 for a missing header), then the handler.
ExternalRequest(route) ==
    /\ filter_external_traffic(Hostname(remote_base_url), route.path) = "call_next"
    /\ ~route.auth
    /\ Handler(route.handler)

\* No request is made at the local UI; time passes.
NextExt ==
    \/ RTick
    \/ \E route \in Routes : ExternalRequest(route)

SpecExt == InitDL /\ [][NextExt]_vars

\* C38 (as claimed): a request from the tunnel without a valid bearer token
\* issues no key, ends no active session, adds nothing to the tasks of an
\* active session and, where it is answered by get_status, is told no key.
C38_ExternalNeedsBearer ==
    [][\A route \in Routes :
          (/\ filter_external_traffic(Hostname(remote_base_url), route.path)
                 = "call_next"
           /\ ~route.auth
           /\ Handler(route.handler))
             => /\ keys_issued' = keys_issued
                /\ Active => api_key' = api_key /\ r_tasks' = r_tasks
                /\ route.handler = "get_status" => StatusBody.api_key = 0]_vars

\* ------------------------------ QueueWorker.start and stop (SpecLoops)
\* The coroutines that start() creates, each with its position: "head" (the
\* while test and _get_next_task), "mark" (_process_task before its UPDATE),
\* "task" (the executor) and "exited"; task is the row it selected.
MaxLoops == 2

loopFrame == <<next_id, file_index, fs, clock, svc_paused, w_paused, w_pc, task,
               bytes_copied, hasher, candidate_files, vi, events, dvars, rvars,
               fvars, ddvars, source_urls, checked>>

\* start()
WorkerStart ==
    /\ IF w_running
       THEN UNCHANGED <<w_running, loops>>
       ELSE /\ Len(loops) < MaxLoops
            /\ w_running' = TRUE
            /\ loops' = Append(loops, [pc |-> "head", task |-> 0])
    /\ UNCHANGED <<queue, current_task_id>>
    /\ UNCHANGED loopFrame

\* stop()
WorkerStop ==
    /\ w_running' = FALSE
    /\ UNCHANGED <<queue, current_task_id, loops>>
    /\ UNCHANGED loopFrame

\* _worker_loop: the while test, then _get_next_task finding a row and
\* _process_task up to its first database call.
LoopHead(l) ==
    /\ l \in DOMAIN loops
    /\ loops[l].pc = "head"
    /\ IF ~w_running
       THEN /\ loops' = [loops EXCEPT ![l].pc = "exited"]
            /\ UNCHANGED current_task_id
       ELSE /\ ~w_paused
            /\ \E i \in NextTaskChoices(queue) :
                  /\ loops' = [loops EXCEPT ![l] = [pc |-> "mark", task |-> i]]
                  /\ current_task_id' = i
    /\ UNCHANGED <<queue, w_running>>
    /\ UNCHANGED loopFrame

\* _process_task: the UPDATE that marks the row running.
LoopMark(l) ==
    /\ l \in DOMAIN loops
    /\ loops[l].pc = "mark"
    /\ queue' = MarkRunning(queue, loops[l].task, clock)
    /\ loops' = [loops EXCEPT ![l].pc = "task"]
    /\ UNCHANGED <<w_running, current_task_id>>
    /\ UNCHANGED loopFrame

\* _process_task: the executor has returned, the row is marked completed,
\* the finally-clause, back to the while test.
LoopFinish(l) ==
    /\ l \in DOMAIN loops
    /\ loops[l].pc = "task"
    /\ queue' = MarkCompleted(queue, loops[l].task)
    /\ current_task_id' = 0
    /\ loops' = [loops EXCEPT ![l] = [pc |-> "head", task |-> 0]]
    /\ UNCHANGED w_running
    /\ UNCHANGED loopFrame

\* The queue holds pending rows; no loop has been started.
InitLoops ==
    /\ queue = [i \in TaskIds |->
                  NewRow(i, "delete", NULL, NULL, "local", "d/a", NULL, 0)]
    /\ next_id = MaxTasks + 1
    /\ fs = [s \in Sides |-> EmptyMap]
    /\ file_index = [s \in Sides |-> EmptyMap]
    /\ WorkerAtBoot
    /\ DownloaderAtBoot
    /\ RemoteAtBoot
    /\ FilterAtBoot
    /\ DedupeAtBoot
    /\ SourcesAtBoot
    /\ HandlersAtBoot

NextLoops ==
    \/ WorkerStart
    \/ WorkerStop
    \/ \E l \in 1..MaxLoops : LoopHead(l)
    \/ \E l \in 1..MaxLoops : LoopMark(l)
    \/ \E l \in 1..MaxLoops : LoopFinish(l)

SpecLoops == InitLoops /\ [][NextLoops]_vars

\* C39 (as claimed): whatever start() and stop() calls are made, at most
\* one worker loop is consuming the queue, so no two loops are inside
\* _process_task at the same time.
C39_OneWorkerLoop ==
    Cardinality({l \in DOMAIN loops : loops[l].pc \in {"mark", "task"}}) <= 1

\* C40 (as claimed): when a delete task completes, the file index holds no
\* record for (dst_side, dst_relpath), so the diff does not report the file
\* as present on that side.
C40_DeleteClearsIndex ==
    [][(/\ WorkerComplete
        /\ task.task_type = "delete")
          => task.dst_relpath \notin DOMAIN file_index'[task.dst_side]]_vars

====
